---------------------------- MODULE Spec2Model ----------------------------
(***************************************************************************)
(* KitchenOps maintenance utilities for a Mealie recipe library:           *)
(*   kitchen_ops_tagger.py   (auto-tagger, API edition)                    *)
(*   kitchen_ops_cleaner.py  (library cleaner)                             *)
(*   kitchen_ops_parser.py   (batch ingredient parser)                     *)
(* plus the store-side write-back layer of the tagger's DB edition, which  *)
(* is exercised by tests/test_tagger.py.                                   *)
(*                                                                         *)
(* Text is modelled as a sequence of one-character strings, so that the    *)
(* regular-expression searches of the code are computed character by       *)
(* character.  A rule expression "a|b|c" is the sequence of its            *)
(* alternatives; an alternative is a sequence of tokens, each a character  *)
(* or one of the zero-width assertions "\\y" (Postgres) / "\\b" (Python).  *)
(***************************************************************************)
EXTENDS Integers, Sequences, FiniteSets, TLC

VARIABLES
    \* --- check_match applied to one text (pure-function harness) ---
    m_text,      \* the corpus text handed to check_match
    m_rule,      \* the rule: [regex, exclude]
    m_result,    \* what check_match returned
    m_pc         \* "call" | "done"

matchVars == <<m_text, m_rule, m_result, m_pc>>

VARIABLES
    \* --- the recipe application behind the API ---
    library,     \* slug id -> recipe record held by the server
    \* --- kitchen_ops_tagger.py ---
    DRY_RUN,     \* the tool's DRY_RUN setting for the current run
    API_TOKEN,   \* whether MEALIE_API_TOKEN is set for the current run
    t_pc,        \* main(): "idle" | "start" | "run" | "drain" | "exit"
    t_run,       \* number of the current tagger run (1, 2, ...)
    t_summaries, \* slug id -> the summary fetched at the start of the run
    t_task,      \* slug id -> "queued" | "done" | "counted" (its future)
    t_result,    \* slug id -> what process_single_recipe returned
    t_prev,      \* slug id -> the previous run's outcome for the recipe
    t_writes,    \* PATCH requests of this run and the one before: [run, slug, updates, status]
    t_report,    \* [updated_count, untagged_count, cuisine_counts]
    t_status,    \* exit status of the last run, -1 while a run is on
    t_fetched    \* whether this run has sent a request to the server

taggerVars == <<t_pc, t_run, t_summaries, t_task, t_result, t_prev, t_writes, t_report,
                t_status, t_fetched>>

VARIABLES
    \* --- kitchen_ops_cleaner.py ---
    c_pc,             \* __main__: "idle" | "start" | "junk" | "api" | "db" | "drain" | "exit"
    c_run,            \* number of the current cleaner run
    c_status,         \* exit status of the last run that ended through sys.exit
    REJECTS,          \* the in-memory reject set (source URLs)
    VERIFIED,         \* the in-memory verified set (slugs)
    reject_file,      \* data/rejects.json on disk
    verified_file,    \* data/verified.json on disk
    FLAGGED_RECIPES,  \* what delete_recipe recorded for the summary table
    all_recipes,      \* slug -> the summary get_recipes() returned
    clean_candidates, \* slugs that passed the junk scan
    c_task,           \* slug -> state / result of its check_integrity future
    c_gets,           \* slugs check_integrity sent GET /api/recipes/{slug} for, this run
    c_broken,         \* DB path: broken_list entries not yet handed to delete_recipe
    c_deletes,        \* DELETE traffic: records [run, slug, requests, deleted]
    c_counts,         \* [junk_count, verified_count, broken_count]
    c_saved,          \* how the two save_json_set calls of this run went ("none": not called)
    c_fetched         \* whether this run has sent a request to the server

cleanerVars == <<c_pc, c_run, c_status, REJECTS, VERIFIED, reject_file, verified_file,
                 FLAGGED_RECIPES, all_recipes, clean_candidates, c_task, c_gets,
                 c_broken, c_deletes, c_counts, c_saved, c_fetched>>

VARIABLES
    \* --- kitchen_ops_parser.py ---
    p_pc,          \* __main__: "idle" | "start" | "run" | "deadlock" | "exit"
    p_run,         \* number of the current parser run
    p_status,      \* how the last run ended
    HISTORY_SET,   \* the in-memory processed-slug history
    history_file,  \* parse_history.json on disk
    p_candidates,  \* candidates of the current run
    p_task,        \* slug in todo -> "queued" | "true" | "false" | "skipped" | "cancelled" | "locked" | "counted"
    p_puts,        \* PUT requests sent: [run, slug, body, status "200" | "failed"]
    p_count,       \* count of successful completions in the current run
    SHUTDOWN_REQUESTED, \* set by signal_handler
    p_saved,       \* how the last save_history call of this run went, or "none"
    p_fetched      \* whether this run has sent a request to the server or the store

parserVars == <<p_pc, p_run, p_status, HISTORY_SET, history_file, p_candidates,
                p_task, p_puts, p_count, SHUTDOWN_REQUESTED, p_saved,
                p_fetched>>

VARIABLES
    \* --- the tagger's write-back layer on the store ---
    s_pc,              \* "idle" | "open"
    s_tags,            \* rows of table tags: [id, group_id, name, slug]
    s_tools,           \* rows of table tools: [id, group_id, name, slug]
    recipes_to_tags,   \* rows of the link table, in insertion order: [recipe_id, entity_id]
    recipes_to_tools,  \* rows of the link table, in insertion order: [recipe_id, entity_id]
    s_next_id,         \* the next identifier uuid generation hands out
    s_calls,           \* the calls made so far: [fn, name, group_id, id]
    s_writes           \* INSERT statements sent to the store

storeVars == <<s_pc, s_tags, s_tools, recipes_to_tags, recipes_to_tools, s_next_id,
               s_calls, s_writes>>

VARIABLES
    \* --- a state file saved and loaded (pure-function harness) ---
    f_tool,      \* "cleaner": save_json_set / load_json_set; "parser": save_history / load_history
    f_pc,        \* "idle" | "start" | "saved" | "loaded"
    f_set,       \* the set handed to the save function
    f_file,      \* the file on disk
    f_outcome,   \* how the last save went
    f_loaded     \* what the load function did: [raises, set]

fileVars == <<f_tool, f_pc, f_set, f_file, f_outcome, f_loaded>>

VARIABLES
    \* --- the parsing passes of process_recipe on one list (pure-function harness) ---
    e_pc,        \* "idle" | "call" | "done"
    e_call,      \* [raw_ingredients, nlp, scores, ai]: the list and what the server answers
    e_done       \* [retry_sub_indices, retry_texts, final_list]

passVars == <<e_pc, e_call, e_done>>

VARIABLES
    \* --- the parser's food and unit caches, from startup into the pool ---
    k_pc,        \* __main__: "idle" | "start" | "db_foods" | "db_units" | "api_units" | "api_foods" | "submit" | "pool"
    FOOD_CACHE,  \* the names cached (the keys of the dict)
    UNIT_CACHE,  \* the names cached (the keys of the dict)
    CACHE_LOCK,  \* who holds the lock: "free" | "main" | a worker
    k_primed,    \* the caches whose priming has run to its end
    k_worker     \* worker -> "ready" | "reading" | "hit" | "miss" (its get_id_for_food)

cacheVars == <<k_pc, FOOD_CACHE, UNIT_CACHE, CACHE_LOCK, k_primed, k_worker>>

vars == <<matchVars, fileVars, library, DRY_RUN, API_TOKEN, taggerVars, cleanerVars, parserVars,
          storeVars, passVars, cacheVars>>

\* What each tool leaves alone.
notMatch == <<fileVars, library, DRY_RUN, API_TOKEN, taggerVars, cleanerVars, parserVars, storeVars,
              passVars, cacheVars>>
notFiles == <<matchVars, library, DRY_RUN, API_TOKEN, taggerVars, cleanerVars, parserVars, storeVars,
              passVars, cacheVars>>
notTagger == <<matchVars, fileVars, cleanerVars, parserVars, storeVars, passVars, cacheVars>>
notCleaner == <<matchVars, fileVars, taggerVars, parserVars, storeVars, passVars, cacheVars>>
notParser == <<matchVars, fileVars, taggerVars, cleanerVars, storeVars, passVars, cacheVars>>
notStore == <<matchVars, fileVars, taggerVars, cleanerVars, parserVars, passVars, cacheVars>>
notPasses == <<matchVars, fileVars, library, DRY_RUN, API_TOKEN, taggerVars, cleanerVars, parserVars,
               storeVars, cacheVars>>
notCaches == <<matchVars, fileVars, library, DRY_RUN, API_TOKEN, taggerVars, cleanerVars, parserVars,
               storeVars, passVars>>

----------------------------------------------------------------------------
(* A component that takes no part in a specification rests at these values *)

NoFunction == <<>>

IdleMatch ==
    /\ m_text = <<>>
    /\ m_rule = [regex |-> <<>>, exclude |-> <<>>]
    /\ m_result = FALSE
    /\ m_pc = "idle"

IdleLibrary == library = NoFunction

IdleTagger ==
    /\ t_pc = "idle"
    /\ t_run = 0
    /\ t_summaries = NoFunction
    /\ t_task = NoFunction
    /\ t_result = NoFunction
    /\ t_prev = NoFunction
    /\ t_writes = {}
    /\ t_report = NoFunction
    /\ t_status = 0
    /\ t_fetched = FALSE

\* A state file that does not exist.
NoFile == [kind |-> "missing", data |-> <<>>]

\* The value a load function returns.
Loaded(data_set) == [raises |-> FALSE, set |-> data_set]

IdleFiles ==
    /\ f_tool = "none"
    /\ f_pc = "idle"
    /\ f_set = {}
    /\ f_file = NoFile
    /\ f_outcome = "none"
    /\ f_loaded = Loaded({})

IdleCleaner ==
    /\ c_pc = "idle"
    /\ c_run = 0
    /\ c_status = 0
    /\ REJECTS = {}
    /\ VERIFIED = {}
    /\ reject_file = NoFile
    /\ verified_file = NoFile
    /\ FLAGGED_RECIPES = {}
    /\ all_recipes = NoFunction
    /\ clean_candidates = {}
    /\ c_task = NoFunction
    /\ c_gets = {}
    /\ c_broken = {}
    /\ c_deletes = {}
    /\ c_counts = NoFunction
    /\ c_saved = <<"none", "none">>
    /\ c_fetched = FALSE

IdleParser ==
    /\ p_pc = "idle"
    /\ p_run = 0
    /\ p_status = 0
    /\ HISTORY_SET = {}
    /\ history_file = NoFile
    /\ p_candidates = {}
    /\ p_task = NoFunction
    /\ p_puts = {}
    /\ p_count = 0
    /\ SHUTDOWN_REQUESTED = FALSE
    /\ p_saved = "none"
    /\ p_fetched = FALSE

IdleStore ==
    /\ s_pc = "idle"
    /\ s_tags = {}
    /\ s_tools = {}
    /\ recipes_to_tags = <<>>
    /\ recipes_to_tools = <<>>
    /\ s_next_id = 1
    /\ s_calls = <<>>
    /\ s_writes = {}

IdlePasses ==
    /\ e_pc = "idle"
    /\ e_call = NoFunction
    /\ e_done = NoFunction

IdleCaches ==
    /\ k_pc = "idle"
    /\ FOOD_CACHE = {}
    /\ UNIT_CACHE = {}
    /\ CACHE_LOCK = "free"
    /\ k_primed = {}
    /\ k_worker = NoFunction

\* Everything but the tool named.
OnlyMatch ==
    /\ IdleFiles /\ IdleLibrary /\ IdleTagger /\ IdleCleaner /\ IdleParser /\ IdleStore
    /\ IdlePasses /\ IdleCaches
OnlyTagger ==
    IdleMatch /\ IdleFiles /\ IdleCleaner /\ IdleParser /\ IdleStore /\ IdlePasses /\ IdleCaches
OnlyCleaner ==
    IdleMatch /\ IdleFiles /\ IdleTagger /\ IdleParser /\ IdleStore /\ IdlePasses /\ IdleCaches
OnlyParser ==
    IdleMatch /\ IdleFiles /\ IdleTagger /\ IdleCleaner /\ IdleStore /\ IdlePasses /\ IdleCaches
OnlyStore ==
    /\ IdleMatch /\ IdleFiles /\ IdleLibrary /\ IdleTagger /\ IdleCleaner /\ IdleParser
    /\ IdlePasses /\ IdleCaches
OnlyFiles ==
    /\ IdleMatch /\ IdleLibrary /\ IdleTagger /\ IdleCleaner /\ IdleParser /\ IdleStore
    /\ IdlePasses /\ IdleCaches
OnlyPasses ==
    /\ IdleMatch /\ IdleFiles /\ IdleLibrary /\ IdleTagger /\ IdleCleaner /\ IdleParser /\ IdleStore
    /\ IdleCaches
    /\ DRY_RUN = TRUE
    /\ API_TOKEN = TRUE
OnlyCaches ==
    /\ IdleMatch /\ IdleFiles /\ IdleLibrary /\ IdleTagger /\ IdleCleaner /\ IdleParser /\ IdleStore
    /\ IdlePasses
    /\ DRY_RUN = TRUE
    /\ API_TOKEN = TRUE

----------------------------------------------------------------------------
(* Characters                                                              *)

LowerLetters ==
    {"a","b","c","d","e","f","g","h","i","j","k","l","m",
     "n","o","p","q","r","s","t","u","v","w","x","y","z"}

UpperToLower ==
    ("A" :> "a") @@ ("B" :> "b") @@ ("C" :> "c") @@ ("D" :> "d") @@
    ("E" :> "e") @@ ("F" :> "f") @@ ("G" :> "g") @@ ("H" :> "h") @@
    ("I" :> "i") @@ ("J" :> "j") @@ ("K" :> "k") @@ ("L" :> "l") @@
    ("M" :> "m") @@ ("N" :> "n") @@ ("O" :> "o") @@ ("P" :> "p") @@
    ("Q" :> "q") @@ ("R" :> "r") @@ ("S" :> "s") @@ ("T" :> "t") @@
    ("U" :> "u") @@ ("V" :> "v") @@ ("W" :> "w") @@ ("X" :> "x") @@
    ("Y" :> "y") @@ ("Z" :> "z")

UpperLetters == DOMAIN UpperToLower

Digits == {"0","1","2","3","4","5","6","7","8","9"}

WordChars == LowerLetters \cup UpperLetters \cup Digits \cup {"_"}

\* \w of Python's re on str patterns, restricted to ASCII.
IsWordChar(c) == c \in WordChars

\* Case folding of re.I.
Lower(c) == IF c \in UpperLetters THEN UpperToLower[c] ELSE c

\* The zero-width word-boundary assertions a rule expression may carry.
BoundaryTokens == {"\\y", "\\b"}

SP == <<" ">>

RECURSIVE Join(_, _)
\* sep.join(parts)
Join(parts, sep) ==
    IF Len(parts) = 0 THEN <<>>
    ELSE IF Len(parts) = 1 THEN parts[1]
    ELSE parts[1] \o sep \o Join(Tail(parts), sep)

----------------------------------------------------------------------------
(* Regular expressions of the shape \b(alt1|alt2|...)\b, re.I              *)

\* \b at offset p (between text[p] and text[p+1], 0 <= p <= Len(text)).
WordBoundary(text, p) ==
    LET before == p >= 1 /\ IsWordChar(text[p])
        after  == p + 1 <= Len(text) /\ IsWordChar(text[p + 1])
    IN  before # after

\* str.replace(r'\y', r'\b') on one alternative.
ReplaceY(alt) == [k \in 1..Len(alt) |-> IF alt[k] = "\\y" THEN "\\b" ELSE alt[k]]

\* str.replace(r'\y', r'\b') on a whole expression.
ReplaceYAll(regex) == [j \in 1..Len(regex) |-> ReplaceY(regex[j])]

RECURSIVE MatchFrom(_, _, _, _)
\* Match tokens alt[k..] at offset p; the offset after the match, or -1.
MatchFrom(alt, k, text, p) ==
    IF k > Len(alt) THEN p
    ELSE IF alt[k] \in BoundaryTokens
         THEN IF alt[k] = "\\b" /\ WordBoundary(text, p)
              THEN MatchFrom(alt, k + 1, text, p)
              ELSE -1
    ELSE IF p + 1 <= Len(text) /\ Lower(text[p + 1]) = Lower(alt[k])
         THEN MatchFrom(alt, k + 1, text, p + 1)
         ELSE -1

RECURSIVE GroupFrom(_, _, _, _)
\* \b(regex[j] | regex[j+1] | ...)\b at offset p: alternatives are tried in
\* order, and the engine backtracks to the next one when the closing \b
\* fails.  The offset after the match, or -1.
GroupFrom(regex, j, text, p) ==
    IF j > Len(regex) THEN -1
    ELSE LET e == MatchFrom(regex[j], 1, text, p)
         IN  IF e # -1 /\ WordBoundary(text, e) THEN e
             ELSE GroupFrom(regex, j + 1, text, p)

\* The match of \b(regex)\b that starts at offset p, or -1.
MatchAt(regex, text, p) ==
    IF WordBoundary(text, p) THEN GroupFrom(regex, 1, text, p) ELSE -1

\* re.search(fr"\b({regex})\b", text, re.I) is not None
regex_search(regex, text) ==
    \E p \in 0..Len(text) : MatchAt(regex, text, p) # -1

RECURSIVE FindAllFrom(_, _, _)
\* len(re.findall(...)) scanning from offset p: leftmost match first, then
\* on from its end (one further when the match is empty).
FindAllFrom(regex, text, p) ==
    IF p > Len(text) THEN 0
    ELSE LET e == MatchAt(regex, text, p)
         IN  IF e = -1 THEN FindAllFrom(regex, text, p + 1)
             ELSE IF e = p THEN 1 + FindAllFrom(regex, text, p + 1)
             ELSE 1 + FindAllFrom(regex, text, e)

\* len(re.findall(fr"\b({regex})\b", text, re.I))
regex_findall_count(regex, text) == FindAllFrom(regex, text, 0)

\* The rule has no exclusion: exclude is None or "" (falsy).
NoExclude == <<>>

\* check_match with the inclusion test dropped to a substring test.
check_match_substring(text, include_regex, exclude_regex) ==
    /\ \E p \in 0..Len(text) : \E j \in 1..Len(include_regex) :
           MatchFrom(ReplaceY(include_regex[j]), 1, text, p) # -1
    /\ ~(exclude_regex # NoExclude /\ regex_search(ReplaceYAll(exclude_regex), text))

\* check_match that never looks at the exclusion expression.
check_match_noexclude(text, include_regex, exclude_regex) ==
    regex_search(ReplaceYAll(include_regex), text)

\* def check_match(text, include_regex, exclude_regex=None) -> bool
check_match(text, include_regex, exclude_regex) ==
    IF ~regex_search(ReplaceYAll(include_regex), text) THEN FALSE
    ELSE IF exclude_regex # NoExclude
            /\ regex_search(ReplaceYAll(exclude_regex), text) THEN FALSE
    ELSE TRUE

----------------------------------------------------------------------------
(* Words of the rule catalogue and of the sample library                   *)

w_ham == <<"h","a","m">>
w_HAM == <<"H","A","M">>
w_burger == <<"b","u","r","g","e","r">>
w_chicken == <<"c","h","i","c","k","e","n">>
w_chick == <<"c","h","i","c","k">>
w_pea == <<"p","e","a">>
w_chickpea == w_chick \o w_pea
w_broth == <<"b","r","o","t","h">>
w_breast == <<"b","r","e","a","s","t">>

----------------------------------------------------------------------------
(* check_match on every text of a bounded set                              *)

\* Texts are built from at most MaxPieces pieces.
MaxPieces == 3

Pieces == {w_ham, w_HAM, w_burger, w_chicken, w_chick, w_pea, w_broth,
           SP, <<"s">>, <<"-">>}

RECURSIVE Concat(_)
Concat(parts) == IF Len(parts) = 0 THEN <<>> ELSE parts[1] \o Concat(Tail(parts))

MatchTexts == { Concat(s) : s \in UNION { [1..k -> Pieces] : k \in 0..MaxPieces } }

\* Rules handed to check_match: the Chicken protein rule (trimmed to the
\* terms the pieces can spell), a one-term 'ham' rule, and the same term
\* written with Postgres word-boundary markers.
MatchRules ==
    { [regex |-> <<w_chicken>>, exclude |-> <<w_broth, w_chickpea>>],
      [regex |-> <<w_ham>>,     exclude |-> NoExclude],
      [regex |-> << <<"\\y">> \o w_ham \o <<"\\y">> >>, exclude |-> NoExclude] }

InitMatch ==
    /\ OnlyMatch
    /\ DRY_RUN = TRUE
    /\ API_TOKEN = TRUE
    /\ m_text \in MatchTexts
    /\ m_rule \in MatchRules
    /\ m_result = FALSE
    /\ m_pc = "call"

\* One call check_match(text, rule.regex, rule.exclude).
CallCheckMatch ==
    /\ m_pc = "call"
    /\ m_result' = check_match(m_text, m_rule.regex, m_rule.exclude)
    /\ m_pc' = "done"
    /\ UNCHANGED <<m_text, m_rule, notMatch>>

NextMatch == CallCheckMatch

SpecMatch == InitMatch /\ [][NextMatch]_vars

----------------------------------------------------------------------------
(* Whole-word occurrence, stated on the text itself                        *)

\* The characters of a term, without zero-width markers.
Literal(alt) == SelectSeq(alt, LAMBDA t : t \notin BoundaryTokens)

\* term occurs in text at index i, in any letter case.
OccursAt(term, text, i) ==
    /\ i + Len(term) - 1 <= Len(text)
    /\ \A k \in 1..Len(term) : Lower(text[i + k - 1]) = Lower(term[k])

\* term occurs in text as a whole word or phrase: the characters next to
\* the occurrence, if any, are not letters, digits or underscores.
OccursAsWholeWord(term, text) ==
    \E i \in 1..Len(text) :
        /\ OccursAt(term, text, i)
        /\ (i = 1 \/ ~IsWordChar(text[i - 1]))
        /\ (i + Len(term) > Len(text) \/ ~IsWordChar(text[i + Len(term)]))

\* Some term of the expression occurs in text as a whole word.
AnyTermWholeWord(regex, text) ==
    \E j \in 1..Len(regex) : OccursAsWholeWord(Literal(regex[j]), text)

\* C1: a rule whose terms occur in the text only inside longer words (or
\* not at all) does not match: check_match is false; 'ham' does not match
\* 'hamburger' and 'chicken' does not match 'chickpea'.  Matching ignores
\* letter case: a whole-word occurrence in any case matches when no
\* exclusion term occurs.
C1_WordBoundary ==
    m_pc = "done" =>
        /\ ~AnyTermWholeWord(m_rule.regex, m_text) => m_result = FALSE
        /\ (/\ AnyTermWholeWord(m_rule.regex, m_text)
            /\ ~AnyTermWholeWord(m_rule.exclude, m_text)) => m_result = TRUE

\* 'ham' was matched against 'hamburger' and 'HAM' against ' ham' alike.
C1_Witness ==
    /\ m_pc = "done"
    /\ m_rule.regex = <<w_ham>>
    /\ m_text = w_ham \o w_burger
    /\ m_result = FALSE

----------------------------------------------------------------------------
(* kitchen_ops_tagger.py: the rule catalogue                               *)
(* The built-in dictionaries, cut down to the entries whose terms the      *)
(* sample library can spell; the shape and the order of each is kept.      *)

w_pork == <<"p","o","r","k">>
w_bacon == <<"b","a","c","o","n">>
w_mozzarella == <<"m","o","z","z","a","r","e","l","l","a">>
w_goat == <<"g","o","a","t">>
w_cheese == <<"c","h","e","e","s","e">>
w_miso == <<"m","i","s","o">>
w_mirin == <<"m","i","r","i","n">>
w_dashi == <<"d","a","s","h","i">>
w_white == <<"w","h","i","t","e">>
w_red == <<"r","e","d">>
w_or == <<"o","r">>
w_fajita == <<"f","a","j","i","t","a">>
w_seasoning == <<"s","e","a","s","o","n","i","n","g">>
w_nacho == <<"n","a","c","h","o">>
w_queso == <<"q","u","e","s","o">>
w_vegan == <<"v","e","g","a","n">>
w_Vegan == <<"V","e","g","a","n">>
w_Tacos == <<"T","a","c","o","s">>
w_tacos == <<"t","a","c","o","s">>
w_taco == <<"t","a","c","o">>
w_plant == <<"p","l","a","n","t">>
w_based == <<"b","a","s","e","d">>
w_Chicken == <<"C","h","i","c","k","e","n">>
w_Soup == <<"S","o","u","p">>
w_soup == <<"s","o","u","p">>
w_stew == <<"s","t","e","w">>
w_cake == <<"c","a","k","e">>
w_Cake == <<"C","a","k","e">>
w_pie == <<"p","i","e">>
w_Heat == <<"H","e","a","t">>
w_the == <<"t","h","e">>
w_wok == <<"w","o","k">>
w_Bake == <<"B","a","k","e">>
HY == <<"-">>

MIN_CUISINE_MATCHES == 3

PROTEIN_TAGS ==
    { [tag |-> "Chicken",
       regex |-> <<w_chicken, w_chicken \o SP \o w_breast>>,
       exclude |-> <<w_broth, w_chickpea>>],
      [tag |-> "Pork",
       regex |-> <<w_pork, w_bacon>>,
       exclude |-> <<w_chicken, w_ham \o w_burger>>] }

CHEESE_TYPES ==
    { [tag |-> "Soft & Creamy",
       regex |-> <<w_mozzarella, w_goat \o SP \o w_cheese>>] }

CUISINE_FINGERPRINTS ==
    { [tag |-> "Japanese", regex |-> <<w_miso, w_mirin, w_dashi>>],
      [tag |-> "Tex-Mex",
       regex |-> <<w_fajita \o SP \o w_seasoning, w_fajita, w_nacho, w_queso>>] }

TEXT_ONLY_TAGS ==
    { [tag |-> "Vegan", keywords |-> <<w_vegan, w_plant \o SP \o w_based>>] }

TOOLS_MATCHES ==
    { [tool |-> "Wok", keywords |-> <<w_wok>>] }

CATEGORY_WATERFALL ==
    << [name |-> "Dessert", keywords |-> <<w_cake, w_pie>>],
       [name |-> "Soup", keywords |-> <<w_soup, w_stew>>],
       [name |-> "Main Course", keywords |-> <<w_chicken, w_stew, w_taco>>] >>

----------------------------------------------------------------------------
(* kitchen_ops_tagger.py: process_single_recipe                            *)

\* The text blobs of a fetched recipe.
ing_text(recipe) ==
    Join([i \in 1..Len(recipe.recipeIngredients) |->
              recipe.recipeIngredients[i].food \o SP
                  \o recipe.recipeIngredients[i].note], SP)

inst_text(recipe) == Join(recipe.recipeInstructions, SP)

cat_text(recipe) == recipe.name \o SP \o recipe.slug

RECURSIVE QuoteDouble(_)
\* str.replace("'", "''") on one keyword.
QuoteDouble(alt) ==
    IF Len(alt) = 0 THEN <<>>
    ELSE (IF Head(alt) = "'" THEN <<"'", "'">> ELSE <<Head(alt)>>)
             \o QuoteDouble(Tail(alt))

\* "|".join(keywords).replace("'", "''")
QuotedChain(keywords) == [j \in 1..Len(keywords) |-> QuoteDouble(keywords[j])]

\* 1. Proteins
ProteinTags(ing) ==
    { rule.tag : rule \in
        { x \in PROTEIN_TAGS : check_match(ing, x.regex, x.exclude) } }

\* 2. Cheese
CheeseTags(ing) ==
    { rule.tag : rule \in
        { x \in CHEESE_TYPES : check_match(ing, x.regex, NoExclude) } }

\* matches = len(re.findall(fr"\b({regex})\b", ing_text, re.I))
cuisine_matches(regex, ing) == regex_findall_count(regex, ing)

\* 3. Cuisine
CuisineTags(ing) ==
    { rule.tag : rule \in
        { x \in CUISINE_FINGERPRINTS :
            cuisine_matches(x.regex, ing) >= MIN_CUISINE_MATCHES } }

\* 4. Text Tags
TextTags(cat) ==
    { rule.tag : rule \in
        { x \in TEXT_ONLY_TAGS :
            check_match(cat, QuotedChain(x.keywords), NoExclude) } }

\* 5. Tools
ToolsMatched(inst) ==
    { rule.tool : rule \in
        { x \in TOOLS_MATCHES : check_match(inst, x.keywords, NoExclude) } }

\* The for loop from entry k on without its break: every matching category.
WaterfallFrom_all(k, cat) ==
    { CATEGORY_WATERFALL[j].name : j \in
        { i \in k..Len(CATEGORY_WATERFALL) :
            check_match(cat, QuotedChain(CATEGORY_WATERFALL[i].keywords), NoExclude) } }

RECURSIVE WaterfallFrom(_, _)
\* 6. Categories (Waterfall): the for loop from entry k on, with its break.
WaterfallFrom(k, cat) ==
    IF k > Len(CATEGORY_WATERFALL) THEN {}
    ELSE IF check_match(cat, QuotedChain(CATEGORY_WATERFALL[k].keywords), NoExclude)
         THEN {CATEGORY_WATERFALL[k].name}
         ELSE WaterfallFrom(k + 1, cat)

\* The six steps started from empty sets instead of the record's own.
Classify_fresh(recipe) ==
    LET ing  == ing_text(recipe)
        inst == inst_text(recipe)
        cat  == cat_text(recipe)
    IN  [tags |-> ProteinTags(ing) \cup CheeseTags(ing)
                      \cup CuisineTags(ing) \cup TextTags(cat),
         categories |-> WaterfallFrom(1, cat),
         tools |-> ToolsMatched(inst)]

\* current_tags, current_cats, current_tools after the six steps.
Classify(recipe) ==
    LET ing  == ing_text(recipe)
        inst == inst_text(recipe)
        cat  == cat_text(recipe)
    IN  [tags |-> recipe.tags \cup ProteinTags(ing) \cup CheeseTags(ing)
                      \cup CuisineTags(ing) \cup TextTags(cat),
         categories |-> IF recipe.categories = {}
                        THEN WaterfallFrom(1, cat)
                        ELSE recipe.categories,
         tools |-> recipe.tools \cup ToolsMatched(inst)]

PatchFields == {"tags", "categories", "tools"}

\* updates that carry every non-empty set, changed or not.
Updates_nonempty(recipe, current) ==
    [f \in { g \in PatchFields : current[g] # {} } |-> current[f]]

\* updates that carry the three sets whatever their change.
Updates_all(recipe, current) ==
    [f \in PatchFields |-> current[f]]

\* updates: the fields whose set differs from the fetched one.
Updates(recipe, current) ==
    [f \in { g \in PatchFields : current[g] # recipe[g] } |-> current[f]]

\* result as initialised at the top of process_single_recipe.
EmptyResult ==
    [tags_added |-> {}, cats_added |-> {}, tools_added |-> {}, error |-> FALSE]

\* result once the three *_added lists are filled in.
Result(recipe, current) ==
    [tags_added |-> current.tags \ recipe.tags,
     cats_added |-> current.categories \ recipe.categories,
     tools_added |-> current.tools \ recipe.tools,
     error |-> FALSE]

\* The server's handling of PATCH /api/recipes/{slug}: each field sent
\* replaces the recipe's list.
ApplyPatch(recipe, updates) ==
    [f \in DOMAIN recipe |-> IF f \in DOMAIN updates THEN updates[f] ELSE recipe[f]]

FetchOutcomes == {"ok", "raise"}
PatchOutcomes == {"ok", "http_error", "raise"}

\* A worker runs process_single_recipe(summary, headers) for slug r.  The
\* GET either yields the recipe or raises; the PATCH, when sent, is applied,
\* answered with an error status (not looked at), or raises.
process_single_recipe(r) ==
    /\ t_pc \in {"run", "drain"}
    /\ t_task[r] = "queued"
    /\ \E current \in {Classify(library[r])} :
       LET recipe  == library[r]
           updates == Updates(recipe, current)
           result  == Result(recipe, current)
           sends   == DOMAIN updates # {} /\ ~DRY_RUN
       IN  \E fetch \in FetchOutcomes, patch \in PatchOutcomes :
            /\ ~(fetch = "ok" /\ sends) => patch = "ok"
            /\ t_result' = [t_result EXCEPT ![r] =
                   IF fetch = "raise" THEN [EmptyResult EXCEPT !.error = TRUE]
                   ELSE [result EXCEPT !.error = sends /\ patch = "raise"]]
            /\ t_writes' = IF fetch = "ok" /\ sends
                           THEN t_writes \cup {[run |-> t_run, slug |-> r,
                                                updates |-> updates,
                                                status |-> patch]}
                           ELSE t_writes
            /\ library' = IF fetch = "ok" /\ sends /\ patch = "ok"
                          THEN [library EXCEPT ![r] = ApplyPatch(recipe, updates)]
                          ELSE library
    /\ t_task' = [t_task EXCEPT ![r] = "done"]
    /\ UNCHANGED <<DRY_RUN, API_TOKEN, t_pc, t_run, t_summaries, t_prev, t_report,
                   t_status, t_fetched, notTagger>>

----------------------------------------------------------------------------
(* kitchen_ops_tagger.py: main                                             *)

\* Number of tagger runs in a behaviour.
MaxRuns == 2

Cuisines == { x.tag : x \in CUISINE_FINGERPRINTS }

\* What fetch_all_summaries comes to: the list, an empty list, or sys.exit(1)
\* on a request that fails.
SummaryOutcomes == {"ok", "empty", "error"}

\* main() that fetches the summaries before it looks at API_TOKEN.
TaggerBegin_fetch_first(fetch) ==
    IF fetch = "ok" THEN "run"
    ELSE IF fetch = "error" THEN "fetch_failed"
    ELSE IF ~API_TOKEN' THEN "no_token"
    ELSE "nothing"

\* main() up to the pool: "no_token" | "fetch_failed" | "nothing" | "run"
TaggerBegin(fetch) ==
    IF ~API_TOKEN' THEN "no_token"
    ELSE IF fetch = "error" THEN "fetch_failed"
    ELSE IF fetch = "empty" THEN "nothing"
    ELSE "run"

\* main() up to the submission of every summary to the pool.  A run that
\* ends before the pool has changed nothing outside the process, and is the
\* last run of a behaviour.
\* A run that reaches the pool keeps in t_writes the requests of the run
\* that has just ended and drops the older ones.
TaggerStart ==
    /\ t_pc = "start" \/ (t_pc = "exit" /\ DOMAIN t_task # {})
    /\ t_run < MaxRuns
    /\ t_run' = t_run + 1
    /\ API_TOKEN' \in BOOLEAN
    /\ t_prev' = t_result
    /\ \E fetch \in SummaryOutcomes :
         LET begin == TaggerBegin(fetch) IN
         IF begin = "run"
         THEN /\ t_pc' = "run"
              /\ t_status' = -1
              /\ t_fetched' = TRUE
              /\ t_summaries' = [r \in DOMAIN library |->
                                    [slug |-> r, tags |-> library[r].tags]]
              /\ t_task' = [r \in DOMAIN library |-> "queued"]
              /\ t_result' = [r \in DOMAIN library |-> EmptyResult]
              /\ t_report' = [updated_count |-> 0, untagged_count |-> 0,
                              cuisine_counts |-> [c \in Cuisines |-> 0]]
              /\ t_writes' = { w \in t_writes : w.run = t_run }
         ELSE /\ t_pc' = "exit"
              /\ t_status' = IF begin = "nothing" THEN 0 ELSE 1
              /\ t_fetched' = (begin # "no_token")
              /\ t_summaries' = NoFunction
              /\ t_task' = NoFunction
              /\ t_result' = NoFunction
              /\ t_report' = NoFunction
              /\ t_writes' = t_writes
    /\ UNCHANGED <<library, DRY_RUN, notTagger>>

\* The body of the as_completed loop: the counters after the result res of
\* the future submitted for summary.  res["error"] is not read.
Tally(report, res, summary) ==
    [updated_count |->
         report.updated_count +
         (IF res.tags_added # {} \/ res.cats_added # {} \/ res.tools_added # {}
          THEN 1 ELSE 0),
     untagged_count |->
         report.untagged_count +
         (IF res.tags_added = {} /\ summary.tags = {} THEN 1 ELSE 0),
     cuisine_counts |->
         [c \in Cuisines |->
             report.cuisine_counts[c] + (IF c \in res.tags_added THEN 1 ELSE 0)]]

\* One turn of the as_completed loop, for the finished future of slug r.
TaggerCollect(r) ==
    /\ t_pc = "run"
    /\ t_task[r] = "done"
    /\ t_task' = [t_task EXCEPT ![r] = "counted"]
    /\ t_report' = Tally(t_report, t_result[r], t_summaries[r])
    /\ UNCHANGED <<library, DRY_RUN, API_TOKEN, t_pc, t_run, t_summaries, t_result, t_prev,
                   t_writes, t_status, t_fetched, notTagger>>

\* A main that prints the report as soon as the loop is left, whatever is
\* still in the pool.
TaggerReport_no_barrier ==
    /\ t_pc = "run"
    /\ t_pc' = "exit"
    /\ t_status' = 0
    /\ UNCHANGED <<library, DRY_RUN, API_TOKEN, t_run, t_summaries, t_task, t_result,
                   t_prev, t_writes, t_report, t_fetched, notTagger>>

\* The pool is drained: the final report is printed and main returns.
TaggerReport ==
    /\ t_pc = "run"
    /\ \A r \in DOMAIN t_task : t_task[r] = "counted"
    /\ t_pc' = "exit"
    /\ t_status' = 0
    /\ UNCHANGED <<library, DRY_RUN, API_TOKEN, t_run, t_summaries, t_task, t_result,
                   t_prev, t_writes, t_report, t_fetched, notTagger>>

\* KeyboardInterrupt in the main thread inside the two with blocks.  It
\* leaves the ThreadPoolExecutor block first, whose __exit__ is
\* shutdown(wait=True): the workers go on until the queue is empty.
TaggerInterrupt ==
    /\ t_pc = "run"
    /\ t_pc' = "drain"
    /\ UNCHANGED <<library, DRY_RUN, API_TOKEN, t_run, t_summaries, t_task, t_result,
                   t_prev, t_writes, t_report, t_status, t_fetched, notTagger>>

\* except KeyboardInterrupt: executor.shutdown(wait=False, cancel_futures=True)
\* on the executor that has shut down already, then sys.exit(1).
TaggerInterrupted ==
    /\ t_pc = "drain"
    /\ \A r \in DOMAIN t_task : t_task[r] # "queued"
    /\ t_pc' = "exit"
    /\ t_status' = 1
    /\ UNCHANGED <<library, DRY_RUN, API_TOKEN, t_run, t_summaries, t_task, t_result,
                   t_prev, t_writes, t_report, t_fetched, notTagger>>

NextTagger ==
    \/ TaggerStart
    \/ \E r \in DOMAIN t_task : process_single_recipe(r)
    \/ \E r \in DOMAIN t_task : TaggerCollect(r)
    \/ TaggerReport
    \/ TaggerInterrupt
    \/ TaggerInterrupted

----------------------------------------------------------------------------
(* The sample library                                                      *)

\* A recipe has at most MaxIngredients ingredient entries.
MaxIngredients == 2

Ingredient(food, note) == [food |-> food, note |-> note]

i_chicken_breast == Ingredient(w_chicken \o SP \o w_breast, <<>>)
i_chicken_broth == Ingredient(w_chicken \o SP \o w_broth, <<>>)
i_bacon == Ingredient(w_bacon, <<>>)
i_miso == Ingredient(w_miso, w_white \o SP \o w_miso \o SP \o w_or \o SP \o w_red \o SP \o w_miso)
i_mirin == Ingredient(w_mirin, <<>>)
i_dashi == Ingredient(w_dashi, w_or \o SP \o w_mirin)
i_fajita_seasoning == Ingredient(w_fajita \o SP \o w_seasoning, <<>>)
i_nacho == Ingredient(w_nacho, <<>>)
i_mozzarella == Ingredient(w_mozzarella, <<>>)

IngredientVocabulary ==
    { i_chicken_breast, i_chicken_broth, i_bacon, i_miso, i_mirin, i_dashi,
      i_fajita_seasoning, i_nacho }

IngredientLists ==
    UNION { [1..k -> IngredientVocabulary] : k \in 0..MaxIngredients }

\* A recipe as GET /api/recipes/{slug} returns it, as far as the tagger reads it.
Recipe(name, slug, ingredients, instructions, tags, categories, tools) ==
    [name |-> name, slug |-> slug, recipeIngredients |-> ingredients,
     recipeInstructions |-> instructions, tags |-> tags,
     categories |-> categories, tools |-> tools]

VeganTacos(ingredients) ==
    Recipe(w_Vegan \o SP \o w_Tacos, w_vegan \o HY \o w_tacos, ingredients,
           << w_Heat \o SP \o w_the \o SP \o w_wok >>, {}, {}, {})

ChickenSoup(ingredients) ==
    Recipe(w_Chicken \o SP \o w_Soup, w_chicken \o HY \o w_soup, ingredients,
           <<>>, {"Chicken"}, {}, {})

Cake(ingredients) ==
    Recipe(w_Cake, w_cake, ingredients, << w_Bake >>, {"Favorite"}, {"Dinner"}, {"Oven"})

\* Every sample recipe over every ingredient list.
WideRecipes ==
    UNION { {VeganTacos(l), ChickenSoup(l), Cake(l)} : l \in IngredientLists }

Slugs == {"r1", "r2"}

\* The library holding a under slug r1 and b under slug r2.
Pair(a, b) == [s \in Slugs |-> IF s = "r1" THEN a ELSE b]

\* Small libraries for whole runs of the tagger.
TaggerLibraries ==
    { Pair(VeganTacos(<<i_chicken_breast>>), ChickenSoup(<<i_chicken_broth, i_mozzarella>>)),
      Pair(Cake(<<i_miso, i_mirin>>), VeganTacos(<<i_chicken_breast>>)) }

TaggerAtStart ==
    /\ t_pc = "start"
    /\ t_run = 0
    /\ t_summaries = NoFunction
    /\ t_task = NoFunction
    /\ t_result = NoFunction
    /\ t_prev = NoFunction
    /\ t_writes = {}
    /\ t_report = NoFunction
    /\ t_status = 0
    /\ t_fetched = FALSE

\* One recipe, drawn from every sample recipe: classification of a record.
InitClassify ==
    /\ OnlyTagger
    /\ \E x \in WideRecipes : library = [r \in {"r1"} |-> x]
    /\ DRY_RUN \in BOOLEAN
    /\ API_TOKEN = TRUE
    /\ TaggerAtStart

\* One run of main over that record.
NextClassify ==
    \/ t_run = 0 /\ TaggerStart
    \/ \E r \in DOMAIN t_task : process_single_recipe(r)
    \/ \E r \in DOMAIN t_task : TaggerCollect(r)
    \/ TaggerReport

SpecClassify == InitClassify /\ [][NextClassify]_vars

\* Libraries of two recipes: whole runs of the tagger.
InitTagger ==
    /\ OnlyTagger
    /\ library \in TaggerLibraries
    /\ DRY_RUN \in BOOLEAN
    /\ API_TOKEN = TRUE
    /\ TaggerAtStart

SpecTagger == InitTagger /\ [][NextTagger]_vars

----------------------------------------------------------------------------
(* Properties of the classification of one record                          *)

\* The recipe's future has finished in the current run and its result has
\* not yet been consumed by main.
Processed(r) == t_pc = "run" /\ t_task[r] = "done"

\* The number of distinct terms of a fingerprint that occur in the text as
\* whole words.
DistinctTerms(regex, text) ==
    Cardinality({ j \in 1..Len(regex) : OccursAsWholeWord(regex[j], text) })

\* The PATCH requests of the current run for slug r.
WritesOf(r) == { w \in t_writes : w.run = t_run /\ w.slug = r }

\* C2: exclusion overrides inclusion.  When a term of a protein rule's
\* exclusion expression occurs in the record's ingredient text, the rule's
\* tag is neither reported as added nor put into a PATCH unless the record
\* had it already; a record whose only ingredient is 'chicken breast' gets
\* 'Chicken' whenever its fetch succeeded.
C2_ExclusionOverrides ==
    \A r \in DOMAIN library :
        Processed(r) =>
            /\ \A rule \in PROTEIN_TAGS :
                  AnyTermWholeWord(rule.exclude, ing_text(library[r])) =>
                      /\ rule.tag \notin t_result[r].tags_added
                      /\ \A w \in WritesOf(r) :
                            ("tags" \in DOMAIN w.updates /\ rule.tag \in w.updates.tags)
                                => rule.tag \in t_summaries[r].tags
            /\ (/\ library[r].recipeIngredients = <<i_chicken_breast>>
                /\ ~t_result[r].error)
                   => "Chicken" \in t_result[r].tags_added \cup t_summaries[r].tags

\* A record whose only ingredient is 'chicken broth' was classified and did
\* not get 'Chicken', although the inclusion expression matches its text.
C2_Witness ==
    /\ Processed("r1")
    /\ library["r1"].recipeIngredients = <<i_chicken_broth>>
    /\ t_summaries["r1"].tags = {}
    /\ ~t_result["r1"].error
    /\ regex_search(<<w_chicken>>, ing_text(library["r1"]))
    /\ "Chicken" \notin t_result["r1"].tags_added
    /\ "Vegan" \in t_result["r1"].tags_added

\* C3: a record in whose ingredient text exactly one distinct term of a
\* cuisine fingerprint occurs never has that cuisine added.
C3_SingleTermNeverCuisine ==
    \A r \in DOMAIN library :
        Processed(r) =>
            \A rule \in CUISINE_FINGERPRINTS :
                DistinctTerms(rule.regex, ing_text(library[r])) = 1
                    => rule.tag \notin t_result[r].tags_added

\* C4: a record in whose ingredient text at least MIN_CUISINE_MATCHES
\* distinct terms of a cuisine fingerprint occur has that cuisine added, or
\* had it already, once it has been classified without error.
C4_ThresholdAlwaysCuisine ==
    \A r \in DOMAIN library :
        (Processed(r) /\ ~t_result[r].error) =>
            \A rule \in CUISINE_FINGERPRINTS :
                DistinctTerms(rule.regex, ing_text(library[r])) >= MIN_CUISINE_MATCHES
                    => rule.tag \in t_result[r].tags_added \cup t_summaries[r].tags

----------------------------------------------------------------------------
(* Properties of whole tagger runs                                         *)

\* The previous run classified slug r without error and every PATCH it sent
\* for r was applied.
PrevApplied(r) ==
    /\ r \in DOMAIN t_prev
    /\ ~t_prev[r].error
    /\ \A w \in t_writes : (w.run = t_run - 1 /\ w.slug = r) => w.status = "ok"

----------------------------------------------------------------------------
(* kitchen_ops_cleaner.py: strings                                         *)

\* str.lower()
LowerAll(text) == [i \in 1..Len(text) |-> Lower(text[i])]

\* sub in text
Contains(sub, text) ==
    \E i \in 1..(Len(text) - Len(sub) + 1) :
        \A k \in 1..Len(sub) : text[i + k - 1] = sub[k]

\* str.replace(a, b) for single characters.
ReplaceChar(text, a, b) == [i \in 1..Len(text) |-> IF text[i] = a THEN b ELSE text[i]]

\* What str.strip() removes and \s matches.
Whitespace == {" ", "\t", "\n", "\r"}

\* len(text.strip()) == 0
IsBlank(text) == \A i \in 1..Len(text) : text[i] \in Whitespace

\* The first index >= from whose character is in stops, or Len(text) + 1.
IndexFrom(text, stops, from) ==
    LET hits == { i \in from..Len(text) : text[i] \in stops }
    IN  IF hits = {} THEN Len(text) + 1
        ELSE CHOOSE i \in hits : \A j \in hits : i <= j

\* text[a..b], empty when b < a.
Slice(text, a, b) == [i \in 1..(IF b < a THEN 0 ELSE b - a + 1) |-> text[a + i - 1]]

\* urlparse(url).path for scheme://netloc/path?query#fragment; a string
\* without "://" is all path up to its query or fragment.
UrlPath(url) ==
    LET colon == IndexFrom(url, {":"}, 1)
        has_scheme == /\ colon + 2 <= Len(url)
                      /\ colon > 1
                      /\ url[colon + 1] = "/" /\ url[colon + 2] = "/"
                      /\ \A i \in 1..(colon - 1) : Lower(url[i]) \in LowerLetters
        start == IF has_scheme THEN IndexFrom(url, {"/", "?", "#"}, colon + 3) ELSE 1
        stop  == IndexFrom(url, {"?", "#"}, start)
    IN  Slice(url, start, stop - 1)

\* str.strip("/")
StripSlashes(path) ==
    LET keep == { i \in 1..Len(path) : path[i] # "/" }
    IN  IF keep = {} THEN <<>>
        ELSE Slice(path, CHOOSE i \in keep : \A j \in keep : i <= j,
                         CHOOSE i \in keep : \A j \in keep : i >= j)

\* str.split("/")[-1]
LastSegment(path) ==
    LET slashes == { i \in 1..Len(path) : path[i] = "/" }
    IN  IF slashes = {} THEN path
        ELSE Slice(path, (CHOOSE i \in slashes : \A j \in slashes : i >= j) + 1, Len(path))

\* slug = urlparse(url).path.strip("/").split("/")[-1].lower()
url_slug(url) == LowerAll(LastSegment(StripSlashes(UrlPath(url))))

w_best == <<"b","e","s","t">>
w_top == <<"t","o","p">>
w_must == <<"m","u","s","t">>
w_favorite == <<"f","a","v","o","r","i","t","e">>
w_easy == <<"e","a","s","y">>
w_healthy == <<"h","e","a","l","t","h","y">>
w_quick == <<"q","u","i","c","k">>
w_ways == <<"w","a","y","s">>
w_things == <<"t","h","i","n","g","s">>

LISTICLE_WORDS ==
    { w_best, w_top, w_must, w_favorite, w_easy, w_healthy, w_quick, w_ways, w_things }

\* The number of consecutive characters of text from index from on that
\* are in chars.
RunLength(text, from, chars) ==
    LET others == { i \in from..Len(text) : text[i] \notin chars }
    IN  (IF others = {} THEN Len(text) + 1
         ELSE CHOOSE i \in others : \A j \in others : i <= j) - from

\* LISTICLE_REGEX.match(text): ^(\d+)\s+(best|top|...), re.IGNORECASE
LISTICLE_REGEX_match(text) ==
    LET d == RunLength(text, 1, Digits)
        s == RunLength(text, d + 1, Whitespace)
    IN  /\ d >= 1
        /\ s >= 1
        /\ \E w \in LISTICLE_WORDS : OccursAt(w, text, d + s + 1)

kw_giveaway == <<"g","i","v","e","a","w","a","y">>
kw_kitchen_tools == <<"k","i","t","c","h","e","n"," ","t","o","o","l","s">>
kw_night_cream == <<"n","i","g","h","t"," ","c","r","e","a","m">>

\* junk_keywords of config/cleaning.yaml: a sample.
HIGH_RISK_KEYWORDS == { kw_giveaway, kw_kitchen_tools, kw_night_cream }

x_privacy_policy == <<"p","r","i","v","a","c","y","-","p","o","l","i","c","y">>
x_contact == <<"c","o","n","t","a","c","t">>
x_about_us == <<"a","b","o","u","t","-","u","s">>
x_login == <<"l","o","g","i","n">>
x_cart == <<"c","a","r","t">>

NON_RECIPE_PATHS == { x_privacy_policy, x_contact, x_about_us, x_login, x_cart }

\* url is None (or empty).
NoUrl == <<>>

\* is_junk_content that tests the name before it looks at the URL.
is_junk_content_name_first(name, url) ==
    LET name_l == LowerAll(name)
    IN  \/ \E kw \in HIGH_RISK_KEYWORDS : Contains(kw, name_l)
        \/ LISTICLE_REGEX_match(name_l)
        \/ /\ url # NoUrl
           /\ \/ \E kw \in HIGH_RISK_KEYWORDS :
                     Contains(ReplaceChar(kw, " ", "-"), url_slug(url))
              \/ LISTICLE_REGEX_match(url_slug(url))
              \/ \E x \in NON_RECIPE_PATHS : Contains(x, LowerAll(url))

\* def is_junk_content(name, url) -> bool
is_junk_content(name, url) ==
    IF url = NoUrl THEN FALSE
    ELSE LET slug   == url_slug(url)
             name_l == LowerAll(name)
         IN  \/ \E kw \in HIGH_RISK_KEYWORDS :
                   Contains(ReplaceChar(kw, " ", "-"), slug) \/ Contains(kw, name_l)
             \/ LISTICLE_REGEX_match(slug) \/ LISTICLE_REGEX_match(name_l)
             \/ \E x \in NON_RECIPE_PATHS : Contains(x, LowerAll(url))

could_not_detect == <<"c","o","u","l","d"," ","n","o","t"," ","d","e","t","e","c","t">>

\* The values recipeInstructions can take in a response.
InstNone == [type |-> "none", text |-> <<>>, steps |-> <<>>]
InstStr(text) == [type |-> "str", text |-> text, steps |-> <<>>]
InstList(steps) == [type |-> "list", text |-> <<>>, steps |-> steps]
StepDict(text) == [type |-> "dict", text |-> text]

\* def validate_instructions(inst) -> bool
validate_instructions(inst) ==
    IF inst.type = "none" THEN FALSE
    ELSE IF inst.type = "str"
         THEN IF Len(inst.text) = 0 THEN FALSE
              ELSE IF IsBlank(inst.text) THEN FALSE
              ELSE IF Contains(could_not_detect, LowerAll(inst.text)) THEN FALSE
              ELSE TRUE
    ELSE IF inst.type = "list"
         THEN IF Len(inst.steps) = 0 THEN FALSE
              ELSE \E i \in 1..Len(inst.steps) :
                       Len(inst.steps[i].text) > 0 /\ ~IsBlank(inst.steps[i].text)
    ELSE FALSE

----------------------------------------------------------------------------
(* kitchen_ops_cleaner.py: the state files                                 *)

Range(seq) == { seq[i] : i \in 1..Len(seq) }

\* list(data_set): the elements in some order.
Listings(data_set) ==
    { q \in [1..Cardinality(data_set) -> data_set] : Range(q) = data_set }

\* A state file holding a JSON list.
ListFile(items) == [kind |-> "list", data |-> items]

\* A file whose content is no JSON text: empty, truncated, garbage.
InvalidFile == [kind |-> "invalid", data |-> <<>>]

\* A file holding a JSON value that is no container: null, true, 42.
ScalarFile == [kind |-> "scalar", data |-> <<>>]

\* A file holding a JSON object with these keys.
ObjectFile(keys) == [kind |-> "object", data |-> keys]

\* A file that exists and cannot be opened for reading.
UnreadableFile == [kind |-> "unreadable", data |-> <<>>]

\* set(json.load(f)) raised TypeError, which the function does not catch.
LoadRaises == [raises |-> TRUE, set |-> {}]

\* set(json.load(f)) for a file that was opened: JSONDecodeError is caught,
\* set() of a list is its elements, set() of a dict is its keys, set() of a
\* value that is not iterable raises TypeError.
set_json_load(file) ==
    IF file.kind = "list" THEN Loaded(Range(file.data))
    ELSE IF file.kind = "object" THEN Loaded(Range(file.data))
    ELSE IF file.kind = "scalar" THEN LoadRaises
    ELSE Loaded({})

\* def load_json_set(filename) -> set[str]
load_json_set(file) ==
    IF file.kind = "missing" THEN Loaded({})
    ELSE IF file.kind = "unreadable" THEN Loaded({})
    ELSE set_json_load(file)

\* open(filename, 'w') fails and leaves the file alone; a failing write
\* leaves the truncated file behind.
SaveOutcomes == {"ok", "open_failed", "write_failed"}

\* with open(..., 'w') as f: json.dump(list(...), f), IOError caught: the
\* file afterwards, for one order of the list and one outcome.
WriteList(file, listing, outcome) ==
    IF outcome = "ok" THEN ListFile(listing)
    ELSE IF outcome = "open_failed" THEN file
    ELSE InvalidFile

\* A save that does not overwrite a file that is there.
save_json_set_keeps(file, listing, outcome) ==
    IF file.kind = "missing" THEN WriteList(file, listing, outcome) ELSE file

\* def save_json_set(filename, data_set); the directory can be created.
save_json_set(file, listing, outcome) == WriteList(file, listing, outcome)

\* def load_history() -> set[str]
load_history(file) ==
    IF file.kind = "missing" THEN Loaded({})
    ELSE IF file.kind = "unreadable" THEN Loaded({})
    ELSE set_json_load(file)

\* def save_history(): the file afterwards, for one order of
\* list(HISTORY_SET) and one outcome of the write.
save_history(file, listing, outcome) == WriteList(file, listing, outcome)

----------------------------------------------------------------------------
(* A state file saved and loaded                                           *)

FileIds == {"slug-1", "slug-2", "slug-3"}

\* What may lie on disk before the tool touches it.
FilesOnDisk ==
    {NoFile, InvalidFile, ScalarFile, UnreadableFile}
        \cup { ObjectFile(q) : q \in Listings({"slug-1"}) }
        \cup { ListFile(q) : q \in Listings({"slug-2", "slug-3"}) }

InitFiles ==
    /\ OnlyFiles
    /\ DRY_RUN = TRUE
    /\ API_TOKEN = TRUE
    /\ f_tool \in {"cleaner", "parser"}
    /\ f_pc = "start"
    /\ f_set \in SUBSET FileIds
    /\ f_file \in FilesOnDisk
    /\ f_outcome = "none"
    /\ f_loaded = Loaded({})

\* save_json_set(filename, f_set), or save_history() with HISTORY_SET = f_set.
FileSave ==
    /\ f_pc = "start"
    /\ \E listing \in Listings(f_set), outcome \in SaveOutcomes :
          /\ f_file' = IF f_tool = "cleaner"
                       THEN save_json_set(f_file, listing, outcome)
                       ELSE save_history(f_file, listing, outcome)
          /\ f_outcome' = outcome
    /\ f_pc' = "saved"
    /\ UNCHANGED <<f_tool, f_set, f_loaded, notFiles>>

\* load_json_set(filename), or load_history().
FileLoad ==
    /\ f_pc \in {"start", "saved"}
    /\ f_loaded' = IF f_tool = "cleaner" THEN load_json_set(f_file)
                   ELSE load_history(f_file)
    /\ f_pc' = "loaded"
    /\ UNCHANGED <<f_tool, f_set, f_file, f_outcome, notFiles>>

NextFiles == FileSave \/ FileLoad

SpecFiles == InitFiles /\ [][NextFiles]_vars

\* C13: state-file round trip.  Whatever lay on disk before, a set saved
\* without an I/O error and then loaded comes back as exactly that set, from
\* save_json_set / load_json_set and from save_history / load_history.
C13_RoundTrip ==
    (f_pc = "loaded" /\ f_outcome = "ok") => f_loaded = Loaded(f_set)

\* The three slugs were saved over an older list and loaded again.
C13_Witness ==
    /\ f_pc = "loaded"
    /\ f_outcome = "ok"
    /\ f_set = FileIds
    /\ f_file.kind = "list" /\ Len(f_file.data) = 3
    /\ f_loaded = Loaded(FileIds)

\* A well-formed list of identifiers.
WellFormed(file) == file.kind = "list"

\* C14: tolerant load.  Loading a file that is missing, or whose content is
\* anything but a well-formed list of identifiers, gives the empty set and
\* does not raise.
C14_TolerantLoad ==
    (f_pc = "loaded" /\ ~WellFormed(f_file)) => f_loaded = Loaded({})

----------------------------------------------------------------------------
(* kitchen_ops_cleaner.py: delete_recipe                                   *)

\* for attempt in range(3)
DELETE_ATTEMPTS == 3

\* The outcome of each DELETE attempt, were it made.
DeleteAttempts == [1..DELETE_ATTEMPTS -> {"200", "other", "raise"}]

RECURSIVE SentFrom_no_break(_, _)
\* A retry loop without the break: it goes through every attempt.
SentFrom_no_break(outcomes, attempt) ==
    IF attempt > DELETE_ATTEMPTS THEN <<>>
    ELSE <<IF outcomes[attempt] = "200" THEN "200" ELSE "failed">>
             \o SentFrom_no_break(outcomes, attempt + 1)

RECURSIVE SentFrom(_, _)
\* The retry loop from the given attempt on: the DELETE requests it sends,
\* each as "200" or "failed" (another status, or RequestException caught).
SentFrom(outcomes, attempt) ==
    IF attempt > DELETE_ATTEMPTS THEN <<>>
    ELSE IF outcomes[attempt] = "200" THEN <<"200">>
    ELSE <<"failed">> \o SentFrom(outcomes, attempt + 1)

\* The loop stops at the first 200.
Deleted(outcomes) ==
    \E k \in 1..Len(SentFrom(outcomes, 1)) : SentFrom(outcomes, 1)[k] = "200"

\* The number of DELETE requests the loop sends.
Requests(outcomes) == Len(SentFrom(outcomes, 1))

\* The effect of def delete_recipe(slug, name, reason, url) once past the
\* dry-run return.
delete_recipe_live(slug, url, outcomes) ==
    /\ c_deletes' = c_deletes \cup {[run |-> c_run, slug |-> slug,
                                     requests |-> Requests(outcomes),
                                     sent |-> SentFrom(outcomes, 1),
                                     deleted |-> Deleted(outcomes)]}
    /\ library' = IF Deleted(outcomes)
                  THEN [r \in DOMAIN library \ {slug} |-> library[r]]
                  ELSE library
    /\ REJECTS' = IF url # NoUrl THEN REJECTS \cup {url} ELSE REJECTS
    /\ VERIFIED' = VERIFIED \ {slug}

\* delete_recipe without the dry-run return.
delete_recipe_always(slug, name, reason, url, outcomes) ==
    /\ FLAGGED_RECIPES' = FLAGGED_RECIPES \cup {[name |-> name, reason |-> reason, url |-> url]}
    /\ delete_recipe_live(slug, url, outcomes)

\* delete_recipe that updates the two sets before the dry-run return.
delete_recipe_sets_first(slug, name, reason, url, outcomes) ==
    /\ FLAGGED_RECIPES' = FLAGGED_RECIPES \cup {[name |-> name, reason |-> reason, url |-> url]}
    /\ IF DRY_RUN
       THEN /\ REJECTS' = IF url # NoUrl THEN REJECTS \cup {url} ELSE REJECTS
            /\ VERIFIED' = VERIFIED \ {slug}
            /\ UNCHANGED <<library, c_deletes>>
       ELSE delete_recipe_live(slug, url, outcomes)

\* def delete_recipe(slug, name, reason, url=None) -> None
delete_recipe(slug, name, reason, url, outcomes) ==
    /\ FLAGGED_RECIPES' = FLAGGED_RECIPES \cup {[name |-> name, reason |-> reason, url |-> url]}
    /\ IF DRY_RUN
       THEN UNCHANGED <<library, c_deletes, REJECTS, VERIFIED>>
       ELSE delete_recipe_live(slug, url, outcomes)

----------------------------------------------------------------------------
(* kitchen_ops_cleaner.py: __main__                                        *)

\* What the list endpoint returns of a recipe, as far as the cleaner reads it.
Summary(recipe) == [name |-> recipe.name, orgURL |-> recipe.orgURL]

\* recipeInstructions in the response of GET /api/recipes/{slug}.
ResponseInstructions(recipe) ==
    InstList([i \in 1..Len(recipe.recipeInstructions) |->
                  StepDict(recipe.recipeInstructions[i])])

\* The HAVING clause of check_integrity_via_db, on the rows of one recipe.
DbBroken(recipe) ==
    \/ Len(recipe.recipeInstructions) = 0
    \/ \A i \in 1..Len(recipe.recipeInstructions) : recipe.recipeInstructions[i] = <<>>

ZeroCounts == [junk_count |-> 0, verified_count |-> 0, broken_count |-> 0]

\* if not DRY_RUN: save_json_set(REJECT_FILE, REJECTS); save_json_set(VERIFIED_FILE, VERIFIED)
SaveState ==
    IF DRY_RUN THEN UNCHANGED <<reject_file, verified_file, c_saved>>
    ELSE \E lr \in Listings(REJECTS), lv \in Listings(VERIFIED),
            o1 \in SaveOutcomes, o2 \in SaveOutcomes :
             /\ reject_file' = save_json_set(reject_file, lr, o1)
             /\ verified_file' = save_json_set(verified_file, lv, o2)
             /\ c_saved' = <<o1, o2>>

\* check_integrity_via_db without the test on VERIFIED.
check_integrity_via_db_all(all_slugs) ==
    LET broken_slugs == { s \in DOMAIN library : DbBroken(library[s]) }
    IN  [broken |-> { s \in broken_slugs : s \in all_slugs },
         verified |-> all_slugs \ broken_slugs]

\* def check_integrity_via_db(conn, all_slugs) -> (broken, verified)
check_integrity_via_db(all_slugs) ==
    LET broken_slugs == { s \in DOMAIN library : DbBroken(library[s]) }
    IN  [broken |-> { s \in broken_slugs : s \in all_slugs /\ s \notin VERIFIED },
         verified |-> all_slugs \ broken_slugs]

\* __main__ that lists the library before it looks at MEALIE_API_TOKEN.
CleanerBegin_list_first(loads_raise, listed) ==
    IF loads_raise THEN "load_failed"
    ELSE IF listed = {} /\ ~API_TOKEN' THEN "no_token"
    ELSE IF listed = {} THEN "nothing"
    ELSE "run"

\* The import and __main__ up to phase 1:
\* "load_failed" | "no_token" | "nothing" | "run"
CleanerBegin(loads_raise, listed) ==
    IF loads_raise THEN "load_failed"
    ELSE IF ~API_TOKEN' THEN "no_token"
    ELSE IF listed = {} THEN "nothing"
    ELSE "run"

\* The process starts: the module loads both sets, __main__ looks at the
\* token and lists the library.  A run that ends before phase 1 has changed
\* nothing outside the process, and is the last run of a behaviour; so is
\* a run one of whose saves failed.
CleanerStart ==
    /\ \/ c_pc = "start"
       \/ c_pc = "exit" /\ DOMAIN c_task # {} /\ "open_failed" \notin Range(c_saved)
                        /\ "write_failed" \notin Range(c_saved)
    /\ c_run < MaxRuns
    /\ c_run' = c_run + 1
    /\ DRY_RUN' \in BOOLEAN
    /\ API_TOKEN' \in BOOLEAN
    /\ REJECTS' = load_json_set(reject_file).set
    /\ VERIFIED' = load_json_set(verified_file).set
    /\ FLAGGED_RECIPES' = {}
    /\ \E listed \in {DOMAIN library, {}} :
         LET begin == CleanerBegin(load_json_set(reject_file).raises
                                      \/ load_json_set(verified_file).raises, listed)
         IN  IF begin = "run"
             THEN /\ all_recipes' = [s \in listed |-> Summary(library[s])]
                  /\ c_task' = [s \in listed |-> "listed"]
                  /\ c_pc' = "junk"
                  /\ c_status' = -1
                  /\ c_fetched' = TRUE
             ELSE \* a traceback at import, sys.exit(1) or sys.exit(0)
                  /\ all_recipes' = NoFunction
                  /\ c_task' = NoFunction
                  /\ c_pc' = "exit"
                  /\ c_status' = IF begin = "nothing" THEN 0 ELSE 1
                  /\ c_fetched' = (begin = "nothing")
    /\ clean_candidates' = {}
    /\ c_gets' = {}
    /\ c_broken' = {}
    /\ c_counts' = ZeroCounts
    /\ c_saved' = <<"none", "none">>
    /\ UNCHANGED <<library, reject_file, verified_file, c_deletes, notCleaner>>

\* Phase 1: one turn of the loop over all_recipes.
CleanerJunk(s) ==
    /\ c_pc = "junk"
    /\ c_task[s] = "listed"
    /\ LET r == all_recipes[s] IN
       IF is_junk_content(r.name, r.orgURL)
       THEN /\ \E outcomes \in DeleteAttempts :
                  delete_recipe(s, r.name, "JUNK CONTENT", r.orgURL, outcomes)
            /\ c_counts' = [c_counts EXCEPT !.junk_count = @ + 1]
            /\ c_task' = [c_task EXCEPT ![s] = "junk"]
            /\ UNCHANGED clean_candidates
       ELSE /\ clean_candidates' = clean_candidates \cup {s}
            /\ c_task' = [c_task EXCEPT ![s] = "clean"]
            /\ UNCHANGED <<library, FLAGGED_RECIPES, REJECTS, VERIFIED, c_deletes, c_counts>>
    /\ UNCHANGED <<DRY_RUN, API_TOKEN, c_pc, c_run, c_status, reject_file, verified_file,
                   all_recipes, c_broken, c_gets, c_saved, c_fetched, notCleaner>>

\* connect_db() and the queries on its connection: no connection (DB_TYPE
\* unset, file missing, connect raised), queries answered, or a query that
\* raises (a table or a column the schema does not have).
DbOutcomes == {"none", "connected", "query_fails"}

\* Phase 2 begins: connect_db(), then either the single query of
\* check_integrity_via_db or the submission of check_integrity per candidate.
CleanerConnect ==
    /\ c_pc = "junk"
    /\ \A s \in DOMAIN c_task : c_task[s] # "listed"
    /\ \E db \in DbOutcomes :
         IF db = "none"
         THEN /\ c_pc' = "api"
              /\ c_task' = [s \in DOMAIN c_task |->
                               IF s \in clean_candidates THEN "queued" ELSE c_task[s]]
              /\ UNCHANGED <<VERIFIED, c_broken, c_counts, c_status>>
         ELSE IF db = "connected"
         THEN LET res == check_integrity_via_db(clean_candidates)
              IN  /\ c_pc' = "db"
                  /\ VERIFIED' = VERIFIED \cup res.verified
                  /\ c_broken' = res.broken
                  /\ c_counts' = [c_counts EXCEPT
                                     !.verified_count = Cardinality(res.verified)]
                  /\ UNCHANGED <<c_task, c_status>>
         ELSE /\ c_pc' = "exit"
              /\ c_status' = 1
              /\ UNCHANGED <<VERIFIED, c_broken, c_counts, c_task>>
    /\ UNCHANGED <<library, DRY_RUN, API_TOKEN, c_run, REJECTS, reject_file, verified_file,
                   FLAGGED_RECIPES, all_recipes, clean_candidates, c_deletes, c_gets, c_saved, c_fetched, notCleaner>>

\* DB path: one turn of the loop over broken_list.
CleanerDbDelete(s) ==
    /\ c_pc = "db"
    /\ s \in c_broken
    /\ \E outcomes \in DeleteAttempts :
          delete_recipe(s, library[s].name, "Empty/Broken Instructions", NoUrl, outcomes)
    /\ c_broken' = c_broken \ {s}
    /\ c_counts' = [c_counts EXCEPT !.broken_count = @ + 1]
    /\ UNCHANGED <<DRY_RUN, API_TOKEN, c_pc, c_run, c_status, reject_file, verified_file,
                   all_recipes, clean_candidates, c_task, c_gets, c_saved, c_fetched, notCleaner>>

\* A worker runs check_integrity(recipe) for slug s.
check_integrity(s) ==
    /\ c_pc \in {"api", "drain"}
    /\ c_task[s] = "queued"
    /\ IF s \in VERIFIED
       THEN /\ c_task' = [c_task EXCEPT ![s] = "res_none"]
            /\ UNCHANGED c_gets
       ELSE \E get \in {"200", "other", "raise"} :
              /\ get = "200" => s \in DOMAIN library
              /\ c_gets' = c_gets \cup {s}
              /\ c_task' = [c_task EXCEPT ![s] =
                     IF get = "raise" THEN "res_none"
                     ELSE IF get = "200"
                             /\ ~validate_instructions(ResponseInstructions(library[s]))
                          THEN "res_broken"
                     ELSE "res_verified"]
    /\ UNCHANGED <<library, DRY_RUN, API_TOKEN, c_pc, c_run, c_status, REJECTS, VERIFIED,
                   reject_file, verified_file, FLAGGED_RECIPES, all_recipes,
                   clean_candidates, c_broken, c_deletes, c_counts, c_saved, c_fetched, notCleaner>>

\* API path: one turn of the as_completed loop, for the future of slug s.
CleanerCollect(s) ==
    /\ c_pc = "api"
    /\ c_task[s] \in {"res_none", "res_verified", "res_broken"}
    /\ c_task' = [c_task EXCEPT ![s] = "counted"]
    /\ IF c_task[s] = "res_none"
       THEN UNCHANGED <<library, REJECTS, VERIFIED, FLAGGED_RECIPES, c_deletes, c_counts>>
       ELSE IF c_task[s] = "res_verified"
       THEN /\ VERIFIED' = VERIFIED \cup {s}
            /\ c_counts' = [c_counts EXCEPT !.verified_count = @ + 1]
            /\ UNCHANGED <<library, REJECTS, FLAGGED_RECIPES, c_deletes>>
       ELSE /\ \E outcomes \in DeleteAttempts :
                  delete_recipe(s, all_recipes[s].name, "Empty/Broken Instructions",
                                all_recipes[s].orgURL, outcomes)
            /\ c_counts' = [c_counts EXCEPT !.broken_count = @ + 1]
    /\ UNCHANGED <<DRY_RUN, API_TOKEN, c_pc, c_run, c_status, reject_file, verified_file,
                   all_recipes, clean_candidates, c_broken, c_gets, c_saved, c_fetched, notCleaner>>

\* Phase 2 is over: the state is saved unless this is a dry run, the summary
\* is printed and the process ends.
CleanerSave ==
    /\ \/ c_pc = "api" /\ \A s \in clean_candidates : c_task[s] = "counted"
       \/ c_pc = "db" /\ c_broken = {}
    /\ SaveState
    /\ c_pc' = "exit"
    /\ c_status' = 0
    /\ UNCHANGED <<library, DRY_RUN, API_TOKEN, c_run, REJECTS, VERIFIED, FLAGGED_RECIPES,
                   all_recipes, clean_candidates, c_task, c_broken, c_deletes,
                   c_counts, c_gets, c_fetched, notCleaner>>

\* except KeyboardInterrupt: the state is saved unless this is a dry run,
\* then sys.exit(130).
CleanerInterrupted ==
    /\ SaveState
    /\ c_pc' = "exit"
    /\ c_status' = 130
    /\ UNCHANGED <<library, DRY_RUN, API_TOKEN, c_run, REJECTS, VERIFIED, FLAGGED_RECIPES,
                   all_recipes, clean_candidates, c_task, c_broken, c_deletes,
                   c_counts, c_gets, c_fetched, notCleaner>>

\* KeyboardInterrupt in the main thread.  In phase 1 and on the DB path the
\* handler runs at once.  On the API path the exception leaves the
\* ThreadPoolExecutor block first, whose __exit__ is shutdown(wait=True):
\* the workers go on until the queue is empty.
CleanerInterrupt ==
    \/ /\ c_pc \in {"junk", "db"}
       /\ CleanerInterrupted
    \/ /\ c_pc = "api"
       /\ c_pc' = "drain"
       /\ UNCHANGED <<library, DRY_RUN, API_TOKEN, c_run, c_status, REJECTS, VERIFIED,
                      reject_file, verified_file, FLAGGED_RECIPES, all_recipes,
                      clean_candidates, c_task, c_broken, c_deletes, c_counts,
                      c_gets, c_saved, c_fetched, notCleaner>>

\* The pool has run every future it was given: the handler runs.
CleanerDrained ==
    /\ c_pc = "drain"
    /\ \A s \in DOMAIN c_task : c_task[s] # "queued"
    /\ CleanerInterrupted

NextCleaner ==
    \/ CleanerStart
    \/ \E s \in DOMAIN c_task : CleanerJunk(s)
    \/ CleanerConnect
    \/ \E s \in DOMAIN c_task : CleanerDbDelete(s)
    \/ \E s \in DOMAIN c_task : check_integrity(s)
    \/ \E s \in DOMAIN c_task : CleanerCollect(s)
    \/ CleanerSave
    \/ CleanerInterrupt
    \/ CleanerDrained

----------------------------------------------------------------------------
(* The cleaner's sample library                                            *)

n_chicken_soup == <<"C","h","i","c","k","e","n"," ","S","o","u","p">>
n_best_grills == <<"1","0"," ","B","e","s","t"," ","G","r","i","l","l","s">>
n_a_page == <<"A"," ","P","a","g","e">>
n_empty_pie == <<"E","m","p","t","y"," ","P","i","e">>
n_blank_pie == <<"B","l","a","n","k"," ","P","i","e">>
u_chicken_soup == <<"h","t","t","p","s",":","/","/","e","x",".","c","o","m","/","r","e","c","i","p","e","s","/","c","h","i","c","k","e","n","-","s","o","u","p">>
u_grills == <<"h","t","t","p","s",":","/","/","e","x",".","c","o","m","/","g","r","i","l","l","s">>
u_giveaway == <<"h","t","t","p","s",":","/","/","e","x",".","c","o","m","/","g","i","v","e","a","w","a","y","-","2","0","2","4","/">>
u_pie == <<"h","t","t","p","s",":","/","/","e","x",".","c","o","m","/","p","i","e">>
u_tools == <<"h","t","t","p","s",":","/","/","e","x",".","c","o","m","/","K","i","t","c","h","e","n","-","T","o","o","l","s","-","G","u","i","d","e">>
step_mix == <<"M","i","x">>
step_blank == <<" "," ">>

CleanerRecipe(name, url, steps) ==
    [name |-> name, orgURL |-> url, recipeInstructions |-> steps]

r_soup == CleanerRecipe(n_chicken_soup, u_chicken_soup, <<step_mix>>)
r_listicle == CleanerRecipe(n_best_grills, u_grills, <<step_mix>>)
r_listicle_no_url == CleanerRecipe(n_best_grills, NoUrl, <<step_mix>>)
r_giveaway == CleanerRecipe(n_a_page, u_giveaway, <<>>)
r_tools == CleanerRecipe(n_a_page, u_tools, <<step_mix>>)
r_empty_pie == CleanerRecipe(n_empty_pie, u_pie, <<>>)
r_blank_pie == CleanerRecipe(n_blank_pie, NoUrl, <<<<>>, step_blank>>)

CleanerLibraries ==
    { Pair(r_soup, r_listicle),
      Pair(r_empty_pie, r_blank_pie),
      Pair(r_listicle_no_url, r_giveaway),
      Pair(r_tools, r_soup),
      Pair(r_soup, r_empty_pie) }

InitCleaner ==
    /\ OnlyCleaner
    /\ library \in CleanerLibraries
    /\ DRY_RUN \in BOOLEAN
    /\ API_TOKEN = TRUE
    /\ c_pc = "start"
    /\ c_run = 0
    /\ c_status = 0
    /\ REJECTS = {}
    /\ VERIFIED = {}
    /\ reject_file \in {NoFile, ScalarFile}
    /\ verified_file = NoFile
    /\ FLAGGED_RECIPES = {}
    /\ all_recipes = NoFunction
    /\ clean_candidates = {}
    /\ c_task = NoFunction
    /\ c_gets = {}
    /\ c_broken = {}
    /\ c_deletes = {}
    /\ c_counts = ZeroCounts
    /\ c_saved = <<"none", "none">>
    /\ c_fetched = FALSE

SpecCleaner == InitCleaner /\ [][NextCleaner]_vars

----------------------------------------------------------------------------
(* kitchen_ops_parser.py: process_recipe                                   *)

\* CONFIDENCE_THRESHOLD, in hundredths.
CONFIDENCE_THRESHOLD == 85

SAVE_INTERVAL == 20

\* The average confidences the NLP parser may report, in hundredths.
Scores == {80, 85}

\* Entries of recipeIngredient: a bare string, or an object with note, unit,
\* food and referenceId ("" when absent); by tells where the entry comes
\* from.
StrItem(text) ==
    [kind |-> "str", text |-> text, note |-> "", unit |-> "", food |-> "", referenceId |-> "",
     by |-> "raw"]
DictItem(note, unit, food) ==
    [kind |-> "dict", text |-> "", note |-> note, unit |-> unit, food |-> food,
     referenceId |-> "", by |-> "raw"]

\* The entry with the referenceId the server gave it.
Referenced(item, id) == [item EXCEPT !.referenceId = id]

\* What a parser returns for one input text.
ParseResult(text, parser) ==
    [kind |-> "dict", text |-> text, note |-> "", unit |-> "unit", food |-> "food",
     referenceId |-> "ref-parsed", by |-> parser]

\* The else branch of the Reconstruct loop, for an entry of
\* clean_ingredients that is not None: target.pop(bad_key, None) for the
\* identifier keys, of which the model carries referenceId.
Reconstruct(item) == [item EXCEPT !.referenceId = ""]

\* The text process_recipe sends to the parser for an entry, "" for an entry
\* it keeps as it is.
ToParse(item) ==
    IF item.kind = "str" THEN item.text
    ELSE IF item.note # "" /\ item.unit = "" /\ item.food = "" THEN item.note
    ELSE ""

\* if not to_parse: return True
NothingToParse(raw_ingredients) ==
    \A i \in 1..Len(raw_ingredients) : ToParse(raw_ingredients[i]) = ""

\* A test that also sends a result at the threshold to the second parser.
Escalates_at_threshold(score) == score <= CONFIDENCE_THRESHOLD

\* if score < CONFIDENCE_THRESHOLD
Escalates(score) == score < CONFIDENCE_THRESHOLD

\* to_parse_indices: the positions of the entries sent to the parser.
to_parse_indices(raw_ingredients) ==
    SelectSeq([i \in 1..Len(raw_ingredients) |-> i],
              LAMBDA i : ToParse(raw_ingredients[i]) # "")

\* retry_sub_indices after the NLP pass; nlp_results is [] when the status
\* is not 200, and holds one result for each text otherwise.
retry_sub_indices(raw_ingredients, nlp, scores) ==
    IF nlp # "200" THEN <<>>
    ELSE SelectSeq(to_parse_indices(raw_ingredients), LAMBDA i : Escalates(scores[i]))

\* retry_texts, the body of the escalation request; none is sent for <<>>.
retry_texts(raw_ingredients, nlp, scores) ==
    LET retry == retry_sub_indices(raw_ingredients, nlp, scores)
    IN  [k \in 1..Len(retry) |-> ToParse(raw_ingredients[retry[k]])]

\* final_list, given the NLP response (status and the score of each entry)
\* and the status of the escalation call.
FinalList(raw_ingredients, nlp, scores, ai) ==
    [i \in 1..Len(raw_ingredients) |->
        LET item == raw_ingredients[i] IN
        IF ToParse(item) = "" THEN Reconstruct(item)
        ELSE IF nlp # "200" THEN item
        ELSE IF ~Escalates(scores[i]) THEN Reconstruct(ParseResult(ToParse(item), "nlp"))
        ELSE IF ai = "200" THEN Reconstruct(ParseResult(ToParse(item), "openai"))
        ELSE item]

CallOutcomes == {"200", "other", "raise"}

\* Every final_list the parser's answers can lead to once the NLP call
\* has returned with the given status.
FinalLists(raw_ingredients, nlp) ==
    { FinalList(raw_ingredients, nlp, scores, ai) :
        scores \in [1..Len(raw_ingredients) -> Scores], ai \in CallOutcomes }

\* A worker runs process_recipe(slug) for slug s.
process_recipe(s) ==
    /\ p_pc = "run"
    /\ p_task[s] = "queued"
    /\ IF SHUTDOWN_REQUESTED
       THEN \* return False before anything is fetched
            /\ p_task' = [p_task EXCEPT ![s] = "skipped"]
            /\ UNCHANGED <<library, p_puts>>
       ELSE
       \E get \in CallOutcomes :
             /\ get = "200" => s \in DOMAIN library
             /\ IF get # "200"
                THEN /\ p_task' = [p_task EXCEPT ![s] = "false"]
                     /\ UNCHANGED <<library, p_puts>>
                ELSE LET raw_ingredients == library[s].recipeIngredient IN
                     IF NothingToParse(raw_ingredients)
                     THEN /\ p_task' = [p_task EXCEPT ![s] = "true"]
                          /\ UNCHANGED <<library, p_puts>>
                     ELSE \E nlp \in CallOutcomes :
                            IF nlp = "raise"
                            THEN /\ p_task' = [p_task EXCEPT ![s] = "false"]
                                 /\ UNCHANGED <<library, p_puts>>
                            ELSE \E final_list \in FinalLists(raw_ingredients, nlp) :
                                   IF DRY_RUN
                                   THEN /\ p_task' = [p_task EXCEPT ![s] = "true"]
                                        /\ UNCHANGED <<library, p_puts>>
                                   ELSE \E put \in CallOutcomes :
                                          /\ p_puts' = p_puts \cup
                                                 {[run |-> p_run, slug |-> s,
                                                   body |-> final_list,
                                                   status |-> IF put = "200" THEN "200"
                                                              ELSE "failed"]}
                                          /\ library' =
                                                 IF put = "200"
                                                 THEN [library EXCEPT
                                                           ![s].recipeIngredient = final_list]
                                                 ELSE library
                                          /\ p_task' = [p_task EXCEPT ![s] =
                                                 IF put = "200" THEN "true" ELSE "false"]
    /\ UNCHANGED <<DRY_RUN, API_TOKEN, p_pc, p_run, p_status, HISTORY_SET, history_file,
                   p_candidates, p_count, SHUTDOWN_REQUESTED, p_saved, p_fetched, notParser>>

----------------------------------------------------------------------------
(* The parsing passes of process_recipe applied to one list                *)

PassItems ==
    { StrItem("2 cups flour"), Referenced(DictItem("pinch of salt", "", ""), "ref-1"),
      Referenced(DictItem("sifted", "cup", "flour"), "ref-2") }

PassLists == UNION { [1..k -> PassItems] : k \in 0..MaxIngredients }

PassCalls ==
    { [raw_ingredients |-> raw, nlp |-> nlp, scores |-> scores, ai |-> ai] :
        raw \in PassLists, nlp \in CallOutcomes,
        scores \in UNION { [1..k -> Scores] : k \in 0..MaxIngredients }, ai \in CallOutcomes }

InitPasses ==
    /\ OnlyPasses
    /\ e_pc = "call"
    /\ e_call \in { c \in PassCalls : Len(c.scores) = Len(c.raw_ingredients) }
    /\ e_done = NoFunction

\* process_recipe from the fetched list to full_recipe["recipeIngredient"]:
\* it returns True at once when nothing is to parse, False when the NLP
\* call raises, and rebuilds the list otherwise.
PassesRun ==
    /\ e_pc = "call"
    /\ e_pc' = "done"
    /\ LET raw == e_call.raw_ingredients IN
       e_done' =
         IF NothingToParse(raw)
         THEN [ended |-> "nothing_to_parse", retry_sub_indices |-> <<>>,
               retry_texts |-> <<>>, final_list |-> <<>>]
         ELSE IF e_call.nlp = "raise"
         THEN [ended |-> "nlp_raised", retry_sub_indices |-> <<>>,
               retry_texts |-> <<>>, final_list |-> <<>>]
         ELSE [ended |-> "rebuilt",
               retry_sub_indices |-> retry_sub_indices(raw, e_call.nlp, e_call.scores),
               retry_texts |-> retry_texts(raw, e_call.nlp, e_call.scores),
               final_list |-> FinalList(raw, e_call.nlp, e_call.scores, e_call.ai)]
    /\ UNCHANGED <<e_call, notPasses>>

NextPasses == PassesRun

SpecPasses == InitPasses /\ [][NextPasses]_vars

----------------------------------------------------------------------------
(* kitchen_ops_parser.py: the food and unit caches                         *)

\* The names the server (and its database) holds, already lower-cased and
\* stripped; one page of each.
FoodNames == {"flour", "sugar"}
UnitNames == {"cup"}

\* The names process_recipe may look up.
LookupNames == {"flour", "salt"}

Workers == {"w1", "w2", "w3"}

\* How the query and the loop of prime_cache_db may go: every row cached, an
\* exception from execute, or one from a row after the first was cached.
PrimeDbOutcomes == {"ok", "execute_raises", "row_raises"}

\* After a prime_cache_db that skips the units when the foods came from SQL.
AfterPrimeDb_no_units(primed) == IF primed THEN "submit" ELSE "api_units"

\* if prime_cache_db(db_conn): the units via the API; else: prime_cache()
AfterPrimeDb(primed) == IF primed THEN "db_units" ELSE "api_units"

InitCaches ==
    /\ OnlyCaches
    /\ k_pc = "start"
    /\ FOOD_CACHE = {}
    /\ UNIT_CACHE = {}
    /\ CACHE_LOCK = "free"
    /\ k_primed = {}
    /\ k_worker = NoFunction

\* db_conn = connect_db(): a connection, or None and prime_cache().
CacheConnect ==
    /\ k_pc = "start"
    /\ \E db \in {"none", "connected"} :
          k_pc' = IF db = "connected" THEN "db_foods" ELSE "api_units"
    /\ UNCHANGED <<FOOD_CACHE, UNIT_CACHE, CACHE_LOCK, k_primed, k_worker, notCaches>>

\* prime_cache_db up to "with CACHE_LOCK:".
PrimeDbLock ==
    /\ k_pc = "db_foods"
    /\ CACHE_LOCK = "free"
    /\ CACHE_LOCK' = "main"
    /\ UNCHANGED <<k_pc, FOOD_CACHE, UNIT_CACHE, k_primed, k_worker, notCaches>>

\* prime_cache_db inside the block: the query and the loop over its rows;
\* an exception leaves the block, is caught and makes the function return
\* False.
prime_cache_db ==
    /\ k_pc = "db_foods"
    /\ CACHE_LOCK = "main"
    /\ \E outcome \in PrimeDbOutcomes :
          /\ FOOD_CACHE' = IF outcome = "ok" THEN FOOD_CACHE \cup FoodNames
                           ELSE IF outcome = "row_raises" THEN FOOD_CACHE \cup {"flour"}
                           ELSE FOOD_CACHE
          /\ k_primed' = IF outcome = "ok" THEN k_primed \cup {"foods"} ELSE k_primed
          /\ k_pc' = AfterPrimeDb(outcome = "ok")
    /\ CACHE_LOCK' = "free"
    /\ UNCHANGED <<UNIT_CACHE, k_worker, notCaches>>

\* Where __main__ stands once the loop over the unit pages is over.
AfterUnits == IF k_pc = "db_units" THEN "submit" ELSE "api_foods"

\* The loop over the unit pages, in __main__ and in prime_cache: GET page 1;
\* a page with items takes CACHE_LOCK, anything else ends the loop.
UnitsGet ==
    /\ k_pc \in {"db_units", "api_units"}
    /\ CACHE_LOCK = "free"
    /\ \E get \in CallOutcomes :
          IF get = "200"
          THEN /\ CACHE_LOCK' = "main"
               /\ UNCHANGED <<k_pc, k_primed>>
          ELSE /\ k_pc' = AfterUnits
               /\ k_primed' = k_primed \cup {"units"}
               /\ UNCHANGED CACHE_LOCK
    /\ UNCHANGED <<FOOD_CACHE, UNIT_CACHE, k_worker, notCaches>>

\* Inside the block: the names of the page are cached; the next page is
\* empty and ends the loop.
UnitsWrite ==
    /\ k_pc \in {"db_units", "api_units"}
    /\ CACHE_LOCK = "main"
    /\ UNIT_CACHE' = UNIT_CACHE \cup UnitNames
    /\ CACHE_LOCK' = "free"
    /\ k_pc' = AfterUnits
    /\ k_primed' = k_primed \cup {"units"}
    /\ UNCHANGED <<FOOD_CACHE, k_worker, notCaches>>

\* prime_cache: the loop over the food pages.
FoodsGet ==
    /\ k_pc = "api_foods"
    /\ CACHE_LOCK = "free"
    /\ \E get \in CallOutcomes :
          IF get = "200"
          THEN /\ CACHE_LOCK' = "main"
               /\ UNCHANGED <<k_pc, k_primed>>
          ELSE /\ k_pc' = "submit"
               /\ k_primed' = k_primed \cup {"foods"}
               /\ UNCHANGED CACHE_LOCK
    /\ UNCHANGED <<FOOD_CACHE, UNIT_CACHE, k_worker, notCaches>>

FoodsWrite ==
    /\ k_pc = "api_foods"
    /\ CACHE_LOCK = "main"
    /\ FOOD_CACHE' = FOOD_CACHE \cup FoodNames
    /\ CACHE_LOCK' = "free"
    /\ k_pc' = "submit"
    /\ k_primed' = k_primed \cup {"foods"}
    /\ UNCHANGED <<UNIT_CACHE, k_worker, notCaches>>

\* executor.submit(process_recipe, ...) for todo.
CacheSubmit ==
    /\ k_pc = "submit"
    /\ k_pc' = "pool"
    /\ k_worker' = [w \in Workers |-> "ready"]
    /\ UNCHANGED <<FOOD_CACHE, UNIT_CACHE, CACHE_LOCK, k_primed, notCaches>>

\* get_id_for_food in worker w, up to "with CACHE_LOCK:".
LookupLock(w) ==
    /\ k_pc = "pool"
    /\ k_worker[w] = "ready"
    /\ CACHE_LOCK = "free"
    /\ CACHE_LOCK' = w
    /\ k_worker' = [k_worker EXCEPT ![w] = "reading"]
    /\ UNCHANGED <<k_pc, FOOD_CACHE, UNIT_CACHE, k_primed, notCaches>>

\* A get_id_for_food that also remembers the name it was asked for.
get_id_for_food_remembers(w) ==
    /\ k_pc = "pool"
    /\ k_worker[w] = "reading"
    /\ \E name \in LookupNames :
          /\ k_worker' = [k_worker EXCEPT ![w] = IF name \in FOOD_CACHE THEN "hit" ELSE "miss"]
          /\ FOOD_CACHE' = FOOD_CACHE \cup {name}
    /\ CACHE_LOCK' = "free"
    /\ UNCHANGED <<k_pc, UNIT_CACHE, k_primed, notCaches>>

\* return FOOD_CACHE.get(name.lower().strip()), inside the block.
get_id_for_food(w) ==
    /\ k_pc = "pool"
    /\ k_worker[w] = "reading"
    /\ \E name \in LookupNames :
          k_worker' = [k_worker EXCEPT ![w] = IF name \in FOOD_CACHE THEN "hit" ELSE "miss"]
    /\ CACHE_LOCK' = "free"
    /\ UNCHANGED <<k_pc, FOOD_CACHE, UNIT_CACHE, k_primed, notCaches>>

NextCaches ==
    \/ CacheConnect
    \/ PrimeDbLock
    \/ prime_cache_db
    \/ UnitsGet
    \/ UnitsWrite
    \/ FoodsGet
    \/ FoodsWrite
    \/ CacheSubmit
    \/ \E w \in Workers : LookupLock(w)
    \/ \E w \in Workers : get_id_for_food(w)

SpecCaches == InitCaches /\ [][NextCaches]_vars

----------------------------------------------------------------------------

(* kitchen_ops_parser.py: the history file and __main__                    *)

\* WHERE ri.food_id IS NULL
DbNeedsParsing(recipe) ==
    \E i \in 1..Len(recipe.recipeIngredient) : recipe.recipeIngredient[i].food = ""

\* __main__ that fetches the candidates before it looks at API_TOKEN.
ParserBegin_fetch_first(load_raises, todo) ==
    IF load_raises THEN "load_failed"
    ELSE IF todo = {} /\ ~API_TOKEN' THEN "no_token"
    ELSE IF todo = {} THEN "nothing"
    ELSE "run"

\* __main__ up to the pool: "no_token" | "load_failed" | "nothing" | "run"
ParserBegin(load_raises, todo) ==
    IF ~API_TOKEN' THEN "no_token"
    ELSE IF load_raises THEN "load_failed"
    ELSE IF todo = {} THEN "nothing"
    ELSE "run"

\* SIGINT between the registration of signal_handler and load_history():
\* "none", or the outcome of the handler's save_history(), which writes the
\* HISTORY_SET of the module's top, the empty set.
EarlySignals == {"none"} \cup SaveOutcomes

\* __main__ up to the submission of todo to the pool.  A run that ends before
\* the pool has changed nothing outside the process, and is the last run of
\* a behaviour; so is a run whose last save_history() failed.  An early
\* signal is taken while the caches and the candidates are fetched.
ParserStart ==
    /\ p_pc = "start" \/ (p_pc = "exit" /\ DOMAIN p_task # {} /\ p_saved = "ok")
    /\ p_run < MaxRuns
    /\ p_run' = p_run + 1
    /\ DRY_RUN' \in BOOLEAN
    /\ API_TOKEN' \in BOOLEAN
    /\ p_count' = 0
    /\ \E db \in DbOutcomes, early \in EarlySignals :
         LET \* get_recipes_needing_parsing_db, or get_all_recipes when there
             \* is no connection or the query returned None
             candidates == IF db = "connected"
                           THEN { s \in DOMAIN library : DbNeedsParsing(library[s]) }
                           ELSE DOMAIN library
             file == IF early = "none" THEN history_file
                     ELSE save_history(history_file, <<>>, early)
             loaded == load_history(file)
             todo == candidates \ loaded.set
             begin == ParserBegin(loaded.raises, todo)
         IN  /\ ~API_TOKEN' => early = "none"
             /\ SHUTDOWN_REQUESTED' = (early # "none")
             /\ p_saved' = early
             /\ history_file' = file
             /\ p_fetched' = (begin # "no_token")
             /\ p_candidates' = IF begin = "no_token" THEN {} ELSE candidates
             /\ HISTORY_SET' = IF begin = "no_token" THEN {} ELSE loaded.set
             /\ IF begin = "run"
                THEN /\ p_task' = [s \in todo |-> "queued"]
                     /\ p_pc' = "run"
                     /\ p_status' = -1
                ELSE \* sys.exit(1), a traceback, or sys.exit(0)
                     /\ p_task' = NoFunction
                     /\ p_pc' = "exit"
                     /\ p_status' = IF begin = "nothing" THEN 0 ELSE 1
    /\ UNCHANGED <<library, p_puts, notParser>>

\* Who holds HISTORY_LOCK: the main thread while it stands inside the
\* "with HISTORY_LOCK" of the loop body, nobody otherwise.
HISTORY_LOCK ==
    IF \E s \in DOMAIN p_task : p_task[s] = "locked" THEN "main" ELSE "free"

\* A turn of the as_completed loop for a future that returned True, up to
\* the acquisition of HISTORY_LOCK.
ParserLock(s) ==
    /\ p_pc = "run"
    /\ ~SHUTDOWN_REQUESTED
    /\ HISTORY_LOCK = "free"
    /\ p_task[s] = "true"
    /\ p_task' = [p_task EXCEPT ![s] = "locked"]
    /\ UNCHANGED <<library, DRY_RUN, API_TOKEN, p_pc, p_run, p_status, HISTORY_SET,
                   history_file, p_candidates, p_puts, p_count, SHUTDOWN_REQUESTED,
                   p_saved, p_fetched, notParser>>

\* The rest of the turn: HISTORY_SET.add(slug) and the release of the lock,
\* the count and the periodic save_history(), which takes and releases the
\* lock itself; or the whole turn for a future that returned False.
ParserCollect(s) ==
    /\ p_pc = "run"
    /\ ~SHUTDOWN_REQUESTED
    /\ p_task[s] = "locked" \/ (p_task[s] = "false" /\ HISTORY_LOCK = "free")
    /\ p_task' = [p_task EXCEPT ![s] = "counted"]
    /\ IF p_task[s] = "locked"
       THEN /\ HISTORY_SET' = HISTORY_SET \cup {s}
            /\ p_count' = p_count + 1
            /\ IF p_count' % SAVE_INTERVAL = 0
               THEN \E listing \in Listings(HISTORY_SET'), outcome \in SaveOutcomes :
                        /\ history_file' = save_history(history_file, listing, outcome)
                        /\ p_saved' = outcome
               ELSE UNCHANGED <<history_file, p_saved>>
       ELSE UNCHANGED <<HISTORY_SET, p_count, history_file, p_saved>>
    /\ UNCHANGED <<library, DRY_RUN, API_TOKEN, p_pc, p_run, p_status, p_candidates,
                   p_puts, SHUTDOWN_REQUESTED, p_fetched, notParser>>

\* SIGINT while the main thread is between two statements that hold no
\* lock: signal_handler sets the flag and calls save_history().
signal_handler ==
    /\ p_pc = "run"
    /\ ~SHUTDOWN_REQUESTED
    /\ HISTORY_LOCK = "free"
    /\ SHUTDOWN_REQUESTED' = TRUE
    /\ \E listing \in Listings(HISTORY_SET), outcome \in SaveOutcomes :
          /\ history_file' = save_history(history_file, listing, outcome)
          /\ p_saved' = outcome
    /\ UNCHANGED <<library, DRY_RUN, API_TOKEN, p_pc, p_run, p_status, HISTORY_SET,
                   p_candidates, p_task, p_puts, p_count, p_fetched, notParser>>

\* The handler under a reentrant lock: taken inside the main thread's
\* "with HISTORY_LOCK", it writes the file and returns into that block.
signal_handler_reentrant ==
    /\ p_pc = "run"
    /\ ~SHUTDOWN_REQUESTED
    /\ HISTORY_LOCK = "main"
    /\ SHUTDOWN_REQUESTED' = TRUE
    /\ \E listing \in Listings(HISTORY_SET), outcome \in SaveOutcomes :
          /\ history_file' = save_history(history_file, listing, outcome)
          /\ p_saved' = outcome
    /\ UNCHANGED <<library, DRY_RUN, API_TOKEN, p_pc, p_run, p_status, HISTORY_SET,
                   p_candidates, p_task, p_puts, p_count, p_fetched, notParser>>

\* SIGINT while the main thread is inside "with HISTORY_LOCK" of the loop
\* body, for a future that returned True: signal_handler runs in that same
\* thread, and its save_history() waits for the lock for ever.
signal_handler_locked ==
    /\ p_pc = "run"
    /\ ~SHUTDOWN_REQUESTED
    /\ HISTORY_LOCK = "main"
    /\ SHUTDOWN_REQUESTED' = TRUE
    /\ p_pc' = "deadlock"
    /\ UNCHANGED <<library, DRY_RUN, API_TOKEN, p_run, p_status, HISTORY_SET,
                   history_file, p_candidates, p_task, p_puts, p_count, p_saved,
                   p_fetched, notParser>>

\* The loop is over, because every future was consumed or because the loop
\* saw SHUTDOWN_REQUESTED on its next turn, cancelled what had not started
\* and broke out: save_history(), the closing report, and the script ends.
ParserFinish ==
    /\ p_pc = "run"
    /\ \/ \A s \in DOMAIN p_task : p_task[s] = "counted"
       \/ /\ SHUTDOWN_REQUESTED
          /\ \E s \in DOMAIN p_task : p_task[s] \in {"true", "false", "skipped"}
    /\ p_task' = [s \in DOMAIN p_task |->
                     IF p_task[s] = "queued" THEN "cancelled" ELSE p_task[s]]
    /\ \E listing \in Listings(HISTORY_SET), outcome \in SaveOutcomes :
          /\ history_file' = save_history(history_file, listing, outcome)
          /\ p_saved' = outcome
    /\ p_pc' = "exit"
    /\ p_status' = 0
    /\ UNCHANGED <<library, DRY_RUN, API_TOKEN, p_run, HISTORY_SET, p_candidates,
                   p_puts, p_count, SHUTDOWN_REQUESTED, p_fetched, notParser>>

NextParser ==
    \/ ParserStart
    \/ \E s \in DOMAIN p_task : process_recipe(s)
    \/ \E s \in DOMAIN p_task : ParserLock(s)
    \/ \E s \in DOMAIN p_task : ParserCollect(s)
    \/ signal_handler
    \/ signal_handler_locked
    \/ ParserFinish

----------------------------------------------------------------------------
(* The parser's sample library                                             *)

ParserRecipe(ingredients) == [recipeIngredient |-> ingredients]

p_raw == ParserRecipe(<<StrItem("2 cups flour")>>)
p_mixed ==
    ParserRecipe(<<Referenced(DictItem("", "cup", "sugar"), "ref-1"),
                   Referenced(DictItem("pinch of salt", "", ""), "ref-2")>>)
p_parsed == ParserRecipe(<<Referenced(DictItem("sifted", "cup", "flour"), "ref-1")>>)

ParserLibraries ==
    { Pair(p_raw, p_parsed), Pair(p_parsed, p_mixed) }

InitParser ==
    /\ OnlyParser
    /\ library \in ParserLibraries
    /\ DRY_RUN \in BOOLEAN
    /\ API_TOKEN = TRUE
    /\ p_pc = "start"
    /\ p_run = 0
    /\ p_status = 0
    /\ HISTORY_SET = {}
    /\ history_file = NoFile
    /\ p_candidates = {}
    /\ p_task = NoFunction
    /\ p_puts = {}
    /\ p_count = 0
    /\ SHUTDOWN_REQUESTED = FALSE
    /\ p_saved = "none"
    /\ p_fetched = FALSE

SpecParser == InitParser /\ [][NextParser]_vars

\* A recipe some of whose ingredient entries process_recipe would send to
\* the parser.
NeedsParsing(recipe) == ~NothingToParse(recipe.recipeIngredient)

\* C9: a dry run does not confirm persistence.  Whenever a non-dry run of
\* the parser leaves a candidate out of its todo list, that recipe either
\* has nothing left to parse or a PUT for it was answered with 200.
C9_DryRunConfirmsNothing ==
    (p_run >= 1 /\ ~DRY_RUN) =>
        \A s \in p_candidates \ DOMAIN p_task :
            s \in DOMAIN library =>
                \/ ~NeedsParsing(library[s])
                \/ \E w \in p_puts : w.slug = s /\ w.status = "200"

----------------------------------------------------------------------------
(* The tagger's store edition: _make_slug, ensure_tag, ensure_tool,        *)
(* link_tag, link_tool and the bulk phases.  tests/test_tagger.py calls    *)
(* them, kitchen_ops_tagger.py as given does not define them; they are     *)
(* modelled from the specification (Category, Bulk strategy, Write-Back    *)
(* Layer) and from what the tests expect.                                  *)

RECURSIVE _make_slug_keeps_ampersand(_)
\* A slug that lowercases and hyphenates but leaves '&' in place.
_make_slug_keeps_ampersand(name) ==
    IF Len(name) = 0 THEN <<>>
    ELSE (IF Head(name) \in {" ", "/"} THEN <<"-">> ELSE <<Lower(Head(name))>>)
             \o _make_slug_keeps_ampersand(Tail(name))

RECURSIVE _make_slug(_)
\* Lowercased, spaces to hyphens, '/' to hyphen, '&' to 'and'.
_make_slug(name) ==
    IF Len(name) = 0 THEN <<>>
    ELSE (IF Head(name) \in {" ", "/"} THEN <<"-">>
          ELSE IF Head(name) = "&" THEN <<"a", "n", "d">>
          ELSE <<Lower(Head(name))>>) \o _make_slug(Tail(name))

\* Calls made on one store connection.
MaxCalls == 3

\* "No identifier": what a dry run reports for an entity it would create.
NoId == 0

\* A lookup that compares the name column with the slug.
FindByName(table, slug, group_id) ==
    { row \in table : row.name = slug /\ row.group_id = group_id }

\* The existence check: the rows with this slug in this group.
FindBySlug(table, slug, group_id) ==
    { row \in table : row.slug = slug /\ row.group_id = group_id }

\* "Ensure the entity exists" on one table: the identifier returned and the
\* table afterwards.
Ensure(table, name, group_id, dry) ==
    LET slug  == _make_slug(name)
        found == FindBySlug(table, slug, group_id)
    IN  IF found # {}
        THEN [id |-> (CHOOSE row \in found : \A other \in found : row.id <= other.id).id,
              table |-> table, inserted |-> FALSE]
        ELSE IF dry
        THEN [id |-> NoId, table |-> table, inserted |-> FALSE]
        ELSE [id |-> s_next_id,
              table |-> table \cup {[id |-> s_next_id, group_id |-> group_id,
                                     name |-> name, slug |-> slug]},
              inserted |-> TRUE]

\* ensure_tag(db, name, group_id)
ensure_tag(name, group_id) ==
    /\ s_pc = "open"
    /\ Len(s_calls) < MaxCalls
    /\ LET e == Ensure(s_tags, name, group_id, DRY_RUN) IN
          /\ s_tags' = e.table
          /\ s_next_id' = IF e.inserted THEN s_next_id + 1 ELSE s_next_id
          /\ s_writes' = IF e.inserted
                         THEN s_writes \cup {[table |-> "tags", id |-> e.id]}
                         ELSE s_writes
          /\ s_calls' = Append(s_calls, [fn |-> "ensure_tag", name |-> name,
                                         group_id |-> group_id, id |-> e.id])
    /\ UNCHANGED <<library, DRY_RUN, API_TOKEN, s_pc, s_tools, recipes_to_tags, recipes_to_tools,
                   notStore>>

\* ensure_tool(db, name, group_id)
ensure_tool(name, group_id) ==
    /\ s_pc = "open"
    /\ Len(s_calls) < MaxCalls
    /\ LET e == Ensure(s_tools, name, group_id, DRY_RUN) IN
          /\ s_tools' = e.table
          /\ s_next_id' = IF e.inserted THEN s_next_id + 1 ELSE s_next_id
          /\ s_writes' = IF e.inserted
                         THEN s_writes \cup {[table |-> "tools", id |-> e.id]}
                         ELSE s_writes
          /\ s_calls' = Append(s_calls, [fn |-> "ensure_tool", name |-> name,
                                         group_id |-> group_id, id |-> e.id])
    /\ UNCHANGED <<library, DRY_RUN, API_TOKEN, s_pc, s_tags, recipes_to_tags, recipes_to_tools,
                   notStore>>

\* A Link that inserts without looking for the pair first.
Link_unchecked(links, recipe_id, entity_id, dry) ==
    IF dry THEN links
    ELSE Append(links, [recipe_id |-> recipe_id, entity_id |-> entity_id])

\* "Ensure exactly one Link": check, then insert.
Link(links, recipe_id, entity_id, dry) ==
    IF dry \/ \E k \in 1..Len(links) :
                 links[k].recipe_id = recipe_id /\ links[k].entity_id = entity_id
    THEN links
    ELSE Append(links, [recipe_id |-> recipe_id, entity_id |-> entity_id])

\* link_tag(db, recipe_id, tag_id)
link_tag(recipe_id, tag_id) ==
    /\ s_pc = "open"
    /\ Len(s_calls) < MaxCalls
    /\ recipes_to_tags' = Link(recipes_to_tags, recipe_id, tag_id, DRY_RUN)
    /\ s_writes' = IF recipes_to_tags' # recipes_to_tags
                   THEN s_writes \cup {[table |-> "recipes_to_tags", id |-> tag_id]}
                   ELSE s_writes
    /\ s_calls' = Append(s_calls, [fn |-> "link_tag", name |-> <<>>,
                                   group_id |-> recipe_id, id |-> tag_id])
    /\ UNCHANGED <<library, DRY_RUN, API_TOKEN, s_pc, s_tags, s_tools, recipes_to_tools, s_next_id,
                   notStore>>

\* link_tool(db, recipe_id, tool_id)
link_tool(recipe_id, tool_id) ==
    /\ s_pc = "open"
    /\ Len(s_calls) < MaxCalls
    /\ recipes_to_tools' = Link(recipes_to_tools, recipe_id, tool_id, DRY_RUN)
    /\ s_writes' = IF recipes_to_tools' # recipes_to_tools
                   THEN s_writes \cup {[table |-> "recipes_to_tools", id |-> tool_id]}
                   ELSE s_writes
    /\ s_calls' = Append(s_calls, [fn |-> "link_tool", name |-> <<>>,
                                   group_id |-> recipe_id, id |-> tool_id])
    /\ UNCHANGED <<library, DRY_RUN, API_TOKEN, s_pc, s_tags, s_tools, recipes_to_tags, s_next_id,
                   notStore>>

n_TestTag == <<"T","e","s","t","T","a","g">>
n_Blue_Funky == <<"B","l","u","e"," ","&"," ","F","u","n","k","y">>
n_Blue_and_Funky == <<"B","l","u","e"," ","a","n","d"," ","F","u","n","k","y">>
n_Lamb_Goat == <<"L","a","m","b","/","G","o","a","t">>
n_Wok == <<"W","o","k">>
n_Air_Fryer == <<"A","i","r"," ","F","r","y","e","r">>
n_Hello_World == <<"H","e","l","l","o"," ","W","o","r","l","d">>

TagNames == { n_TestTag, n_Blue_Funky, n_Blue_and_Funky, n_Lamb_Goat, n_Hello_World }
ToolNames == { n_Wok, n_Air_Fryer }
Groups == { "test-group-id", "other-group-id" }
RecipeIds == { "r1" }

NextStore ==
    \/ \E name \in TagNames, g \in Groups : ensure_tag(name, g)
    \/ \E name \in ToolNames, g \in Groups : ensure_tool(name, g)
    \/ \E r \in RecipeIds, row \in s_tags : link_tag(r, row.id)
    \/ \E r \in RecipeIds, row \in s_tools : link_tool(r, row.id)

InitStore ==
    /\ OnlyStore
    /\ DRY_RUN \in BOOLEAN
    /\ API_TOKEN = TRUE
    /\ s_pc = "open"
    /\ s_tags = {}
    /\ s_tools = {}
    /\ recipes_to_tags = <<>>
    /\ recipes_to_tools = <<>>
    /\ s_next_id = 1
    /\ s_calls = <<>>
    /\ s_writes = {}

SpecStore == InitStore /\ [][NextStore]_vars

\* The rows of the table behind an ensure function.
TableOf(fn) == IF fn = "ensure_tag" THEN s_tags ELSE s_tools

\* C10: idempotent entity creation.  Two calls of ensure_tag (or of
\* ensure_tool) with the same name and group return the same identifier,
\* and the store then holds exactly one entity with that slug in the group
\* (none in a dry run, which creates nothing).
C10_EnsureIdempotent ==
    \A i \in 1..Len(s_calls) : \A j \in (i + 1)..Len(s_calls) :
        (/\ s_calls[i].fn \in {"ensure_tag", "ensure_tool"}
         /\ s_calls[j].fn = s_calls[i].fn
         /\ s_calls[j].name = s_calls[i].name
         /\ s_calls[j].group_id = s_calls[i].group_id)
        => /\ s_calls[j].id = s_calls[i].id
           /\ Cardinality({ row \in TableOf(s_calls[i].fn) :
                              /\ row.slug = _make_slug(s_calls[i].name)
                              /\ row.group_id = s_calls[i].group_id })
                  = (IF DRY_RUN THEN 0 ELSE 1)

\* ensure_tool('Wok') was called twice in a row on a live store and returned
\* the identifier of the one row with slug 'wok' both times.
C10_Witness ==
    /\ ~DRY_RUN
    /\ Len(s_calls) >= 2
    /\ s_calls[1].fn = "ensure_tool" /\ s_calls[2].fn = "ensure_tool"
    /\ s_calls[1].name = n_Wok /\ s_calls[2].name = n_Wok
    /\ s_calls[1].group_id = s_calls[2].group_id
    /\ s_calls[1].id = s_calls[2].id
    /\ s_calls[1].id # NoId
    /\ \E row \in s_tools : row.id = s_calls[1].id /\ row.slug = <<"w", "o", "k">>

----------------------------------------------------------------------------
(* Links                                                                   *)

\* The rows of a link table for one (record, entity) pair.
LinkRows(links, recipe_id, entity_id) ==
    { k \in 1..Len(links) :
        links[k].recipe_id = recipe_id /\ links[k].entity_id = entity_id }

\* No pair has two rows in the table.
NoDuplicateLinks(links) ==
    \A k \in 1..Len(links) :
        Cardinality(LinkRows(links, links[k].recipe_id, links[k].entity_id)) = 1

\* The step is a call fn(recipe_id, entity_id) on a pair the table holds.
RelinkStep(fn, links) ==
    /\ Len(s_calls') = Len(s_calls) + 1
    /\ s_calls'[Len(s_calls')].fn = fn
    /\ LinkRows(links, s_calls'[Len(s_calls')].group_id,
                s_calls'[Len(s_calls')].id) # {}

\* C11: idempotent linking.  After any sequence of link_tag and link_tool
\* calls each link table holds at most one row per (record, entity) pair,
\* and a link_tag or link_tool call on a pair that is linked already leaves
\* the tables as they are and sends no INSERT.
C11_LinkIdempotent ==
    /\ [](NoDuplicateLinks(recipes_to_tags) /\ NoDuplicateLinks(recipes_to_tools))
    /\ [][(RelinkStep("link_tag", recipes_to_tags)
             \/ RelinkStep("link_tool", recipes_to_tools))
          => /\ recipes_to_tags' = recipes_to_tags
             /\ recipes_to_tools' = recipes_to_tools
             /\ s_writes' = s_writes]_vars

\* link_tag was called twice for record r1 and the one tag on a live store;
\* the table holds one row for the pair.
C11_Witness ==
    /\ ~DRY_RUN
    /\ Len(s_calls) = 3
    /\ s_calls[1].fn = "ensure_tag"
    /\ s_calls[2].fn = "link_tag" /\ s_calls[3].fn = "link_tag"
    /\ s_calls[2].group_id = "r1" /\ s_calls[3].group_id = "r1"
    /\ s_calls[2].id = s_calls[1].id /\ s_calls[3].id = s_calls[1].id
    /\ Len(recipes_to_tags) = 1
    /\ recipes_to_tags[1] = [recipe_id |-> "r1", entity_id |-> s_calls[1].id]

----------------------------------------------------------------------------
(* The slug of a name                                                      *)

s_blue_and_funky == <<"b","l","u","e","-","a","n","d","-","f","u","n","k","y">>
s_lamb_goat == <<"l","a","m","b","-","g","o","a","t">>
s_hello_world == <<"h","e","l","l","o","-","w","o","r","l","d">>

\* The slug the tests give for a name.
ExpectedSlug ==
    (n_Blue_Funky :> s_blue_and_funky) @@ (n_Lamb_Goat :> s_lamb_goat)
        @@ (n_Hello_World :> s_hello_world)

\* The slug column of the rows ensure_tag and ensure_tool have written.
StoredEntities == s_tags \cup s_tools

\* C12: the slug is a function of the name alone.  Every entity written for
\* 'Blue & Funky' has the slug 'blue-and-funky', for 'Lamb/Goat' 'lamb-goat',
\* for 'Hello World' 'hello-world'; a slug has no uppercase letter, space,
\* '/' or '&'; and two entities with the same name have the same slug,
\* whichever call and group they were written for.
C12_SlugDeterministic ==
    /\ \A row \in StoredEntities :
          /\ row.name \in DOMAIN ExpectedSlug => row.slug = ExpectedSlug[row.name]
          /\ \A k \in 1..Len(row.slug) :
                row.slug[k] \notin UpperLetters \cup {" ", "/", "&"}
    /\ \A a \in StoredEntities, b \in StoredEntities :
          a.name = b.name => a.slug = b.slug

\* 'Blue & Funky' was written in both groups, and 'Hello World' once.
C12_Witness ==
    /\ \E a \in s_tags, b \in s_tags :
          /\ a.name = n_Blue_Funky /\ b.name = n_Blue_Funky
          /\ a.group_id # b.group_id
          /\ a.slug = s_blue_and_funky /\ b.slug = s_blue_and_funky
    /\ \E c \in s_tags : c.name = n_Hello_World /\ c.slug = s_hello_world

----------------------------------------------------------------------------
(* Resume                                                                  *)

IntegrityReason == "Empty/Broken Instructions"

\* This step of the cleaner checks the integrity of slug s or hands it to
\* delete_recipe for its instructions: a GET by check_integrity, an entry of
\* broken_list, a flagged recipe or a DELETE during phase 2.
IntegrityStep(s) ==
    \/ s \in c_gets' /\ s \notin c_gets
    \/ s \in c_broken' /\ s \notin c_broken
    \/ c_task[s] # "res_broken" /\ c_task'[s] = "res_broken"
    \/ /\ c_pc \in {"api", "db"}
       /\ \/ \E d \in c_deletes' \ c_deletes : d.slug = s
          \/ \E f \in FLAGGED_RECIPES' \ FLAGGED_RECIPES :
                f.reason = IntegrityReason /\ f.name = all_recipes[s].name

\* C15: a run skips what the loaded run state records.  The parser submits
\* process_recipe for no slug of the history it loaded, and no step of the
\* cleaner checks the integrity of, or deletes for its instructions, a
\* slug that is in the verified set, on the API path and on the DB path.
C15_Resume ==
    /\ [][p_run' # p_run =>
             \A s \in DOMAIN p_task' : s \notin load_history(history_file').set]_vars
    /\ [][c_run' = c_run =>
             \A s \in VERIFIED \cap DOMAIN c_task : ~IntegrityStep(s)]_vars

\* Second runs: the parser left out a candidate that its history file
\* lists and submitted the other one; the cleaner, on the DB path, loaded a
\* verified set holding a recipe without instructions and left it alone.
C15_ParserWitness ==
    /\ p_run = 2
    /\ p_pc = "run"
    /\ \E s \in p_candidates : s \in HISTORY_SET /\ s \notin DOMAIN p_task
    /\ \E s \in DOMAIN p_task : p_task[s] # "queued"

C15_Witness ==
    /\ c_run = 2
    /\ c_pc = "db"
    /\ \E s \in clean_candidates :
          /\ s \in load_json_set(verified_file).set
          /\ s \in VERIFIED
          /\ s \in DOMAIN library /\ DbBroken(library[s])
          /\ s \notin c_broken
    /\ c_counts.broken_count = 0
    /\ \A d \in c_deletes : d.run # 2

----------------------------------------------------------------------------
(* Interrupts                                                              *)

\* A later run that loads the file gets exactly this set.
Holds(file, data_set) == load_json_set(file) = Loaded(data_set)

\* The parser has ended after an interrupt, none of its writes having failed.
ParserInterruptedExit == p_pc = "exit" /\ SHUTDOWN_REQUESTED /\ p_saved = "ok"

\* The cleaner has ended after an interrupt, none of its writes having failed.
CleanerInterruptedExit ==
    /\ c_pc = "exit"
    /\ c_status = 130
    /\ "open_failed" \notin Range(c_saved)
    /\ "write_failed" \notin Range(c_saved)

\* At its exit after an interrupt the parser's history file lists the
\* history set.
ParserPersists == ParserInterruptedExit => Holds(history_file, HISTORY_SET)

\* At its exit after an interrupt the cleaner's two files list its two sets.
CleanerPersists ==
    CleanerInterruptedExit =>
        Holds(reject_file, REJECTS) /\ Holds(verified_file, VERIFIED)

\* The same, for a run that is not a dry run.
CleanerPersistsLive == ~DRY_RUN => CleanerPersists

\* C16: interrupt persistence.  An interrupt during processing gets the run
\* state written before the process exits: the handler that writes it comes
\* to its end, and at the exit the parser's history file lists the history
\* set and the cleaner's reject and verified files list its two sets.
C16_InterruptPersistence ==
    /\ p_pc # "deadlock"
    /\ ParserPersists
    /\ CleanerPersists

----------------------------------------------------------------------------

\* The step is the parser's exit after an interrupt.
ParserInterruptedFinish == ParserFinish /\ SHUTDOWN_REQUESTED

\* C17: interrupt exit status.  The exit of each tool after a user interrupt
\* carries a status that is neither 0, the status of normal completion, nor
\* 1, the status of missing credentials and of a connection failure.
C17_InterruptExitStatus ==
    [][/\ TaggerInterrupted => t_status' \notin {0, 1}
       /\ CleanerInterrupted => c_status' \notin {0, 1}
       /\ ParserInterruptedFinish => p_status' \notin {0, 1}]_vars

\* The cleaner's part of it, which holds.
CleanerInterruptExitStatus ==
    [][CleanerInterrupted => c_status' \notin {0, 1}]_vars

\* The tagger's part.
TaggerInterruptExitStatus ==
    [][TaggerInterrupted => t_status' \notin {0, 1}]_vars

\* The parser's part.
ParserInterruptExitStatus ==
    [][ParserInterruptedFinish => p_status' \notin {0, 1}]_vars

----------------------------------------------------------------------------

\* After the tagger's interrupt no queued record is taken up.
TaggerStopsNewWork ==
    [][t_pc = "drain" =>
          /\ \A r \in DOMAIN t_task : t_task[r] = "queued" => t_task'[r] = "queued"
          /\ t_writes' = t_writes
          /\ library' = library]_vars

\* After the cleaner's interrupt no queued record is fetched, judged or
\* deleted.
CleanerStopsNewWork ==
    [][(c_pc = "drain" \/ c_status = 130) =>
          /\ c_run' = c_run => c_gets' = c_gets
          /\ \A s \in DOMAIN c_task :
                c_task[s] = "queued" => c_task'[s] \in {"queued", "res_none"}
          /\ c_deletes' = c_deletes
          /\ c_run' = c_run => library' = library]_vars

\* After the parser's interrupt no queued record is fetched, parsed or put.
ParserStopsNewWork ==
    [][(SHUTDOWN_REQUESTED /\ p_run' = p_run) =>
          /\ \A s \in DOMAIN p_task :
                p_task[s] = "queued" => p_task'[s] \in {"queued", "skipped", "cancelled"}
          /\ p_puts' = p_puts
          /\ library' = library]_vars

\* C18: an interrupt stops new work.  Once the interrupt has been received,
\* no record whose processing had not started is fetched, evaluated or
\* written by the worker pool of the tagger, of the parser or of the cleaner.
C18_InterruptStopsNewWork ==
    TaggerStopsNewWork /\ ParserStopsNewWork /\ CleanerStopsNewWork

----------------------------------------------------------------------------

(* Missing credentials                                                     *)

\* The tagger, started without a token, ends at once with a non-zero status.
TaggerNeedsToken ==
    t_run' # t_run =>
        /\ t_pc' = "exit" /\ t_status' > 0
        /\ ~t_fetched'
        /\ t_task' = NoFunction /\ t_summaries' = NoFunction
        /\ t_writes' = t_writes

\* The cleaner, started without a token, ends at once with a non-zero status.
CleanerNeedsToken ==
    c_run' # c_run =>
        /\ c_pc' = "exit" /\ c_status' > 0
        /\ ~c_fetched'
        /\ c_task' = NoFunction /\ all_recipes' = NoFunction
        /\ c_gets' = {} /\ c_deletes' = c_deletes
        /\ reject_file' = reject_file /\ verified_file' = verified_file

\* The parser, started without a token, ends at once with a non-zero status.
ParserNeedsToken ==
    p_run' # p_run =>
        /\ p_pc' = "exit" /\ p_status' > 0
        /\ ~p_fetched'
        /\ p_task' = NoFunction /\ p_candidates' = {}
        /\ p_puts' = p_puts
        /\ history_file' = history_file

\* No tool is at work.
AllAtRest ==
    /\ t_pc \in {"idle", "start", "exit"}
    /\ c_pc \in {"idle", "start", "exit"}
    /\ p_pc \in {"idle", "start", "exit"}

C19_OtherWitness ==
    \/ ~API_TOKEN /\ t_run = 1 /\ t_pc = "exit" /\ t_status = 1 /\ ~t_fetched
    \/ ~API_TOKEN /\ p_run = 2 /\ p_pc = "exit" /\ p_status = 1 /\ ~p_fetched

----------------------------------------------------------------------------
(* Failure isolation in the tagger's worker pool                           *)

\* The PATCH requests of the current run that failed: answered with an error
\* status, or raised.
FailedWrites == { w \in t_writes : w.run = t_run /\ w.status # "ok" }

\* A record whose write failed carries error = TRUE in its result.
FailureFlagged == \A w \in FailedWrites : t_result[w.slug].error

\* A run that reaches its report has collected every submitted record.
BatchCompleted ==
    (t_pc = "exit" /\ t_status = 0 /\ DOMAIN t_task # {}) =>
        \A r \in DOMAIN t_task : t_task[r] = "counted"

\* A worker that ends in a flagged result leaves every other record and the
\* run itself as they were.
FailureKeepsBatch ==
    \A r \in DOMAIN t_task :
        (process_single_recipe(r) /\ t_result'[r].error) =>
            /\ t_task'[r] = "done"
            /\ t_pc' = t_pc
            /\ \A q \in DOMAIN t_task \ {r} :
                   t_task'[q] = t_task[q] /\ t_result'[q] = t_result[q]

\* Collecting a flagged result leaves a trace in the counters: they differ
\* from what the same result without the flag leaves.
FailureCounted ==
    \A r \in DOMAIN t_task :
        (TaggerCollect(r) /\ t_result[r].error) =>
            t_report' # Tally(t_report, [t_result[r] EXCEPT !.error = FALSE],
                              t_summaries[r])

C20_BatchSurvives == [](BatchCompleted) /\ [][FailureKeepsBatch]_vars

C20_FlaggedFailure == [](FailureFlagged)

C20_CountedFailure == [][FailureCounted]_vars

\* C20: in the tagger's Remote strategy a failure on one record never aborts
\* the batch: the worker returns a result flagged as an error, every other
\* submitted record is still processed, and the failure is counted for the
\* report.
C20_FailureIsolation ==
    /\ [](FailureFlagged /\ BatchCompleted)
    /\ [][FailureKeepsBatch /\ FailureCounted]_vars

\* A run has reported after a worker ended in a flagged result.
C20_FlaggedRunReported ==
    /\ t_pc = "exit" /\ t_status = 0 /\ DOMAIN t_task # {}
    /\ \E r \in DOMAIN t_task : t_result[r].error

----------------------------------------------------------------------------

(* The parser's signal handler and HISTORY_LOCK                            *)

\* The main thread waits, inside the handler, for the lock it holds itself.
HandlerBlocked == SHUTDOWN_REQUESTED /\ p_pc = "deadlock"

\* C21: an interrupt delivered at any moment of the parser's run never
\* deadlocks it.  Whenever the handler has been entered, its save_history()
\* obtains HISTORY_LOCK: the main thread is never left waiting for a lock it
\* holds itself.
C21_InterruptNeverDeadlocks == SHUTDOWN_REQUESTED => ~HandlerBlocked

----------------------------------------------------------------------------

\* The slugs a load of the history file returns.
Stored(file) == load_history(file).set

\* The step keeps every slug the history file holds.
KeepsStored == Stored(history_file) \subseteq Stored(history_file')

\* C22: during a parser run the set of slugs stored in the history file
\* never loses an entry.  From the start of the process on, whatever the
\* moment of an interrupt, no step whose save_history() met no I/O error
\* takes a slug out of the file: its content is always a superset of its
\* content when the process started.
C22_HistoryNeverShrinks == [][p_saved' = "ok" => KeepsStored]_vars

\* The same, I/O errors of save_history() included.
HistoryKeptAlways == [][KeepsStored]_vars

\* The same for the steps that take no signal before load_history().
HistoryKeptAfterLoad ==
    [][(p_saved' = "ok" /\ ~(p_run' # p_run /\ SHUTDOWN_REQUESTED')) => KeepsStored]_vars

----------------------------------------------------------------------------

(* What process_single_recipe writes                                       *)

\* The PATCH requests this step sends.
NewWrites == t_writes' \ t_writes

\* The step is the worker's whole call for slug r.
WorkerStep(r) == t_task[r] = "queued" /\ t_task'[r] = "done"

\* The worker for slug r sends a PATCH only in a live run for a record with
\* a changed set, sends one whenever it ends without an exception on such a
\* record, and the PATCH carries the changed fields and no other.
WritesOnChange(r) ==
    \E current \in {Classify(library[r])} :
        LET recipe  == library[r]
            changed == { f \in PatchFields : current[f] # recipe[f] }
        IN  /\ NewWrites # {} => (~DRY_RUN /\ changed # {})
            /\ (~DRY_RUN /\ changed # {} /\ ~t_result'[r].error) => NewWrites # {}
            /\ \A w \in NewWrites :
                  /\ w.slug = r
                  /\ DOMAIN w.updates = changed
                  /\ \A f \in changed : w.updates[f] = current[f]

----------------------------------------------------------------------------

\* Every list the worker for slug r sends holds the names the record had,
\* and the record keeps them.
KeepsAssignments(r) ==
    /\ \A w \in NewWrites :
          \A f \in DOMAIN w.updates : library[r][f] \subseteq w.updates[f]
    /\ \A f \in PatchFields : library[r][f] \subseteq library'[r][f]

----------------------------------------------------------------------------

(* The category waterfall                                                  *)

\* The entries of the waterfall whose pattern matches the record's name and
\* slug.
WaterfallMatches(recipe) ==
    { k \in 1..Len(CATEGORY_WATERFALL) :
        check_match(cat_text(recipe), QuotedChain(CATEGORY_WATERFALL[k].keywords),
                    NoExclude) }

\* The category of the first matching entry, if any.
FirstMatch(recipe) ==
    LET m == WaterfallMatches(recipe) IN
    IF m = {} THEN {}
    ELSE {CATEGORY_WATERFALL[CHOOSE k \in m : \A j \in m : k <= j].name}

\* What the worker for slug r reports and sends as categories: nothing for
\* a record that has a category, else the first matching entry alone.
WaterfallOnce(r) ==
    LET recipe == library[r]
        added  == t_result'[r].cats_added
        fetched == ~t_result'[r].error \/ NewWrites # {}
    IN  /\ recipe.categories # {} =>
              /\ added = {}
              /\ \A w \in NewWrites : "categories" \notin DOMAIN w.updates
              /\ library'[r].categories = recipe.categories
        /\ recipe.categories = {} =>
              /\ Cardinality(added) <= 1
              /\ added \subseteq FirstMatch(recipe)
              /\ fetched => added = FirstMatch(recipe)
              /\ \A w \in NewWrites :
                    "categories" \in DOMAIN w.updates => w.updates.categories = added
              /\ library'[r].categories \subseteq added

C25_CategorisedWitness ==
    \E r \in DOMAIN t_task :
        /\ t_task[r] # "queued"
        /\ ~t_result[r].error
        /\ library[r].categories = {"Dinner"}
        /\ WaterfallMatches(library[r]) # {}

----------------------------------------------------------------------------

(* Fallback from the Bulk strategy to the Remote strategy                  *)

\* The cleaner leaves phase 1 for phase 2, on the DB path or on the API
\* path, unless the user interrupts it.
CleanerReachesPhase2 ==
    (c_pc = "junk" /\ c_run' = c_run /\ c_pc' # "junk") =>
        \/ c_pc' \in {"db", "api"}
        \/ c_pc' = "exit" /\ c_status' = 130

\* A parser started with a token and a loadable history gets its candidates
\* and goes on to the pool, or ends with status 0 for want of work.
ParserReachesPool ==
    (p_run' # p_run /\ API_TOKEN' /\ ~load_history(history_file').raises) =>
        /\ p_fetched'
        /\ p_pc' = "run" \/ (p_pc' = "exit" /\ p_status' = 0)

\* C26: strategy fallback.  Whenever the direct store connection cannot be
\* established, or a bulk phase fails after the connection was made, the run
\* falls back to the remote API path for that phase and goes on: a bulk
\* failure never aborts the run, in the cleaner's integrity phase and in the
\* parser's cache-priming and candidate-selection phases.
C26_StrategyFallback == [][CleanerReachesPhase2 /\ ParserReachesPool]_vars

C26_CleanerFallback == [][CleanerReachesPhase2]_vars

C26_ParserFallback == [][ParserReachesPool]_vars

----------------------------------------------------------------------------

(* What the parser's history records                                       *)

\* The slugs this run has added to the history: todo holds no slug of the
\* loaded history.
AddedToHistory == DOMAIN p_task \cap HISTORY_SET

\* C27: a slug is added to the parser's history only if the recipe needed
\* no parsing or its parsed ingredients were written back successfully.
\* Either way the recipe of a slug added by this run has no entry left to
\* parse; a recipe whose fetch, parsing call or update failed is not added.
C27_HistoryOnlyOnSuccess ==
    \A s \in AddedToHistory :
        s \in DOMAIN library => ~NeedsParsing(library[s])

\* The same for runs that are not dry runs.
HistoryOnlyOnSuccessLive == ~DRY_RUN => C27_HistoryOnlyOnSuccess

\* Every slug added by a live run has nothing to parse or was the object of
\* a PUT answered with 200.
HistoryOnlyAfterPut ==
    ~DRY_RUN =>
        \A s \in AddedToHistory :
            s \in DOMAIN library =>
                \/ ~NeedsParsing(library[s])
                \/ \E w \in p_puts : w.run = p_run /\ w.slug = s /\ w.status = "200"

----------------------------------------------------------------------------

(* What the cleaner's verified set records                                 *)

\* The API path marks slug s as verified in this step.
MarksVerified(s) == c_pc = "api" /\ s \notin VERIFIED /\ s \in VERIFIED'

\* The recipe of slug s is there and GET returns instructions for it that
\* validate_instructions accepts.
HasInstructions(s) ==
    /\ s \in DOMAIN library
    /\ validate_instructions(ResponseInstructions(library[s]))

\* C28: the cleaner adds a slug to the verified set only if the recipe's
\* instructions were retrieved and found non-empty; a recipe whose fetch
\* failed is neither marked verified nor deleted.
C28_VerifiedOnlyWhenChecked ==
    [][\A s \in DOMAIN c_task : MarksVerified(s) => HasInstructions(s)]_vars

\* A fetch that raised leaves the slug out of the verified set and the
\* recipe in the library.
RequestErrorLeavesAlone ==
    [][\A s \in DOMAIN c_task :
          (c_pc = "api" /\ c_task[s] = "res_none" /\ c_task'[s] = "counted") =>
              /\ VERIFIED' = VERIFIED
              /\ c_deletes' = c_deletes
              /\ library' = library]_vars

----------------------------------------------------------------------------

(* delete_recipe and the two sets                                          *)

\* The calls of delete_recipe that this step makes in a live run.
NewDeletes == c_deletes' \ c_deletes

\* C29: in a live run delete_recipe adds the recipe's URL to the reject set
\* and removes its slug from the verified set only when the remote delete
\* succeeded; when every attempt fails both sets are left unchanged.
C29_SetsFollowDelete ==
    [][\A d \in NewDeletes :
          ~d.deleted => (REJECTS' = REJECTS /\ VERIFIED' = VERIFIED)]_vars

\* The part for the reject set, and the part for the verified set.
RejectsFollowDelete ==
    [][\A d \in NewDeletes : ~d.deleted => REJECTS' = REJECTS]_vars

VerifiedFollowsDelete ==
    [][\A d \in NewDeletes : ~d.deleted => VERIFIED' = VERIFIED]_vars

\* A delete that succeeded is followed by both updates.
DeleteUpdatesSets ==
    [][\A d \in NewDeletes :
          d.deleted =>
              /\ d.slug \notin VERIFIED'
              /\ (d.slug \in DOMAIN library /\ library[d.slug].orgURL # NoUrl
                      /\ c_pc # "db") =>
                    library[d.slug].orgURL \in REJECTS']_vars

----------------------------------------------------------------------------

(* The flushes of the parser's history                                     *)

\* The recorded successes that the history file does not hold.
MissingFromFile == HISTORY_SET \ Stored(history_file)

\* No write of the history file has failed in this run.
WritesWentWell == p_saved \in {"none", "ok"}

\* The interrupt has been received, or the run is over.
FlushDue == SHUTDOWN_REQUESTED \/ p_pc = "exit"

\* C30: the history is flushed at every SAVE_INTERVAL-th success, at the end
\* of the run and on interrupt: fewer than SAVE_INTERVAL recorded successes
\* are ever missing from the file, and none once the interrupt has been
\* received or the run has ended.
C30_PeriodicFlush ==
    /\ Cardinality(MissingFromFile) < SAVE_INTERVAL
    /\ (FlushDue /\ WritesWentWell) => MissingFromFile = {}

\* The flush at the end of the run leaves nothing behind.
FlushAtEnd == (p_pc = "exit" /\ WritesWentWell) => MissingFromFile = {}

\* The handler's flush leaves nothing behind when it gets the lock.
FlushOnInterrupt ==
    (SHUTDOWN_REQUESTED /\ WritesWentWell /\ ~HandlerBlocked) => MissingFromFile = {}

\* Between two multiples of SAVE_INTERVAL the loop leaves the file alone.
NoFlushBetween ==
    [][\A s \in DOMAIN p_task \cap DOMAIN p_task' :
          (p_task[s] = "locked" /\ p_task'[s] = "counted"
              /\ p_count' % SAVE_INTERVAL # 0) => history_file' = history_file]_vars

----------------------------------------------------------------------------

(* HISTORY_LOCK around the history set and its file                        *)

\* A step of the pool phase that changes the history set.
HistoryMutation == p_pc = "run" /\ HISTORY_SET' # HISTORY_SET

\* A step in which save_history() has run.
HistoryFlush == history_file' # history_file \/ p_saved' # p_saved

\* The main thread leaves its "with HISTORY_LOCK" block in this step.
LockReleased ==
    \A s \in DOMAIN p_task \cap DOMAIN p_task' :
        p_task[s] = "locked" => p_task'[s] = "counted"

\* The turns of the loop that stand inside the block.
InsideBlock == { s \in DOMAIN p_task : p_task[s] = "locked" }

\* C31: every mutation of the history set during the pool phase and every
\* flush of it is made holding HISTORY_LOCK: the set changes only in the
\* main thread's locked block, a flush starts only when the lock is free or
\* has just been released by the step itself, and the block is entered by
\* one turn at a time.
C31_HistoryLocking ==
    [][/\ HistoryMutation => HISTORY_LOCK = "main"
       /\ HistoryFlush => (HISTORY_LOCK = "free" \/ LockReleased)
       /\ Cardinality(InsideBlock) <= 1]_vars

\* The handler has flushed a set that grew in this run, while futures that
\* returned True wait for their turn.
C31_Witness ==
    /\ p_pc = "run"
    /\ SHUTDOWN_REQUESTED
    /\ p_saved = "ok"
    /\ DOMAIN p_task \cap HISTORY_SET # {}
    /\ Stored(history_file) = HISTORY_SET
    /\ \E s \in DOMAIN p_task : p_task[s] = "true"

\* While the main thread is inside the block no flush changes the file.
NoFlushInsideBlock ==
    [][(HISTORY_LOCK = "main" /\ HISTORY_LOCK' = "main") =>
          history_file' = history_file]_vars

----------------------------------------------------------------------------

(* A save that is cut short                                                *)

\* The file holds the complete set handed to the save.
HoldsNewSet == f_file'.kind = "list" /\ Range(f_file'.data) = f_set

\* C32: a save is atomic.  Whatever happens during save_json_set or
\* save_history, the file afterwards holds either what it held before or the
\* complete new set, never empty or partial content.
C32_AtomicSave ==
    [][(f_pc = "start" /\ f_pc' = "saved") => (f_file' = f_file \/ HoldsNewSet)]_vars

\* A save whose open() fails leaves the file as it was, and a save without
\* an I/O error writes the complete set.
SaveKeepsOrWrites ==
    [][(f_pc = "start" /\ f_pc' = "saved" /\ f_outcome' # "write_failed") =>
          (f_file' = f_file \/ HoldsNewSet)]_vars

----------------------------------------------------------------------------

(* Low-confidence results and the second parser                            *)

\* The positions whose text went to the NLP parser and came back scored.
Scored ==
    { i \in 1..Len(e_call.raw_ingredients) :
        ToParse(e_call.raw_ingredients[i]) # "" /\ e_call.nlp = "200" }

\* The positions named in the escalation request.
Resubmitted == Range(e_done.retry_sub_indices)

\* C33: every NLP result whose average confidence is below the threshold is
\* resubmitted to the escalation parser, and every result at or above the
\* threshold is accepted without escalation.
C33_LowConfidenceEscalation ==
    (e_pc = "done" /\ e_done.ended = "rebuilt") =>
        /\ Resubmitted \subseteq Scored
        /\ Len(e_done.retry_texts) = Cardinality(Resubmitted)
        /\ \A k \in 1..Len(e_done.retry_texts) :
              e_done.retry_texts[k] = ToParse(e_call.raw_ingredients[e_done.retry_sub_indices[k]])
        /\ \A i \in Scored :
              LET text == ToParse(e_call.raw_ingredients[i]) IN
              IF e_call.scores[i] < CONFIDENCE_THRESHOLD
              THEN i \in Resubmitted
              ELSE /\ i \notin Resubmitted
                   /\ e_done.final_list[i] = Reconstruct(ParseResult(text, "nlp"))

\* One result at the threshold was accepted and one below it was resubmitted
\* and replaced by the second parser's result.
C33_Witness ==
    /\ e_pc = "done"
    /\ e_done.ended = "rebuilt"
    /\ \E i, j \in Scored :
          /\ e_call.scores[i] = CONFIDENCE_THRESHOLD
          /\ e_done.final_list[i].by = "nlp"
          /\ e_call.scores[j] < CONFIDENCE_THRESHOLD
          /\ j \in Resubmitted
          /\ e_done.final_list[j].by = "openai"

----------------------------------------------------------------------------

(* The list process_recipe writes back                                     *)

\* The parse result process_recipe accepted for position i, if any: the NLP
\* result at or above the threshold, or the second parser's result for a
\* result below it.
AcceptedResults(i) ==
    LET item == e_call.raw_ingredients[i] IN
    IF ToParse(item) = "" \/ e_call.nlp # "200" THEN {}
    ELSE IF e_call.scores[i] >= CONFIDENCE_THRESHOLD
    THEN {Reconstruct(ParseResult(ToParse(item), "nlp"))}
    ELSE IF e_call.ai = "200"
    THEN {Reconstruct(ParseResult(ToParse(item), "openai"))}
    ELSE {}

\* C34: the list written back has the length and order of the fetched list:
\* position i holds the accepted parse result for ingredient i, or else the
\* original ingredient i unchanged; an ingredient that was not sent for
\* parsing, or whose low-confidence result was not replaced, is written back
\* unchanged.
C34_ListRebuiltInPlace ==
    (e_pc = "done" /\ e_done.ended = "rebuilt") =>
        /\ Len(e_done.final_list) = Len(e_call.raw_ingredients)
        /\ \A i \in 1..Len(e_call.raw_ingredients) :
              IF AcceptedResults(i) # {}
              THEN e_done.final_list[i] \in AcceptedResults(i)
              ELSE e_done.final_list[i] = e_call.raw_ingredients[i]

\* The same, but for the identifier keys of an entry that was not sent.
ListRebuiltButForIds ==
    (e_pc = "done" /\ e_done.ended = "rebuilt") =>
        /\ Len(e_done.final_list) = Len(e_call.raw_ingredients)
        /\ \A i \in 1..Len(e_call.raw_ingredients) :
              IF AcceptedResults(i) # {}
              THEN e_done.final_list[i] \in AcceptedResults(i)
              ELSE IF ToParse(e_call.raw_ingredients[i]) = ""
              THEN e_done.final_list[i] = Reconstruct(e_call.raw_ingredients[i])
              ELSE e_done.final_list[i] = e_call.raw_ingredients[i]

\* A low-confidence NLP result is never written.
LowConfidenceNeverWritten ==
    (e_pc = "done" /\ e_done.ended = "rebuilt") =>
        \A i \in Scored :
            e_call.scores[i] < CONFIDENCE_THRESHOLD => e_done.final_list[i].by # "nlp"

----------------------------------------------------------------------------

(* Flagged results in the tagger's counters                                *)

\* The as_completed loop consumes the result of slug r in this step.
CollectStep(r) == t_task[r] = "done" /\ t_task'[r] = "counted"

\* C35: a recipe whose processing ended in an error (its result is flagged,
\* because the fetch or the PATCH raised) is never counted in updated_count
\* or in the per-cuisine added counters.
C35_ErrorsNotCounted ==
    [][\A r \in DOMAIN t_task \cap DOMAIN t_task' :
          (CollectStep(r) /\ t_result[r].error) =>
              /\ t_report'.updated_count = t_report.updated_count
              /\ t_report'.cuisine_counts = t_report.cuisine_counts]_vars

\* A result flagged because the fetch raised adds nothing to the two
\* counters.
FetchErrorsNotCounted ==
    [][\A r \in DOMAIN t_task \cap DOMAIN t_task' :
          (CollectStep(r) /\ t_result[r].error
              /\ ~\E w \in t_writes : w.run = t_run /\ w.slug = r) =>
              /\ t_report'.updated_count = t_report.updated_count
              /\ t_report'.cuisine_counts = t_report.cuisine_counts]_vars

----------------------------------------------------------------------------

(* The DB-accelerated integrity scan against the API scan                  *)

\* Phase 2 takes the DB path in this step: check_integrity_via_db has run.
DbScan == c_pc = "junk" /\ c_pc' = "db"

\* What check_integrity decides from the recipe the API returns for slug s.
ApiBroken(s) == ~validate_instructions(ResponseInstructions(library[s]))

\* C36: the DB scan and the API scan classify every candidate alike.
\* check_integrity_via_db reports a candidate broken exactly when
\* validate_instructions rejects its instructions (no steps, or only empty
\* or whitespace-only step text), and verified otherwise.
C36_ScansAgree ==
    [][DbScan =>
          \A s \in clean_candidates \ VERIFIED :
              /\ s \in c_broken' <=> ApiBroken(s)
              /\ s \in VERIFIED' <=> ~ApiBroken(s)]_vars

\* The two scans agree on every candidate that has no step whose text is
\* whitespace only.
HasBlankStep(s) ==
    \E i \in 1..Len(library[s].recipeInstructions) :
        /\ library[s].recipeInstructions[i] # <<>>
        /\ IsBlank(library[s].recipeInstructions[i])

ScansAgreeButForBlanks ==
    [][DbScan =>
          \A s \in clean_candidates \ VERIFIED :
              ~HasBlankStep(s) =>
                  /\ s \in c_broken' <=> ApiBroken(s)
                  /\ s \in VERIFIED' <=> ~ApiBroken(s)]_vars

----------------------------------------------------------------------------

(* The retry loop of delete_recipe                                         *)

\* The requests of record d stop at the first 200 and at DELETE_ATTEMPTS.
BoundedRetry(d) ==
    /\ d.requests = Len(d.sent)
    /\ Len(d.sent) \in 1..DELETE_ATTEMPTS
    /\ \A k \in 1..(Len(d.sent) - 1) : d.sent[k] # "200"
    /\ d.deleted <=> d.sent[Len(d.sent)] = "200"
    /\ ~d.deleted => Len(d.sent) = DELETE_ATTEMPTS

\* C37: in a live run delete_recipe issues at most 3 DELETE requests for a
\* recipe, none after the first 200 response, and returns without raising
\* even when every attempt fails: the run goes on.
C37_BoundedDeleteRetry ==
    [][\A d \in NewDeletes :
          /\ BoundedRetry(d)
          /\ ~d.deleted => (c_pc' # "exit" /\ c_status' = c_status)]_vars

\* One delete went through at its second attempt, and a run has finished
\* after a delete of which all three attempts failed.
C37_Witness ==
    /\ c_pc = "exit"
    /\ c_status = 0
    /\ \E d \in c_deletes : d.sent = <<"failed", "200">>
    /\ \E d \in c_deletes : d.sent = <<"failed", "failed", "failed">>

----------------------------------------------------------------------------

(* The discipline of the food and unit caches                              *)

\* A step that writes to one of the caches.
CacheWrite == FOOD_CACHE' # FOOD_CACHE \/ UNIT_CACHE' # UNIT_CACHE

\* The first process_recipe is submitted in this step.
FirstSubmit == k_pc # "pool" /\ k_pc' = "pool"

\* C38: on every startup path of the parser the priming of both caches has
\* run before the first process_recipe is submitted, every write to a cache
\* is made by the holder of CACHE_LOCK, and no write is made during the
\* processing phase.
C38_CacheDiscipline ==
    [][/\ FirstSubmit => k_primed = {"foods", "units"}
       /\ CacheWrite => (CACHE_LOCK = "main" /\ CACHE_LOCK' = "free")
       /\ k_pc = "pool" => ~CacheWrite]_vars

\* The pool runs on caches filled from SQL (foods) and from the API (units),
\* and a worker has found a name in the food cache.
C38_Witness ==
    /\ k_pc = "pool"
    /\ FOOD_CACHE = FoodNames
    /\ UNIT_CACHE = UnitNames
    /\ \E w \in Workers : k_worker[w] = "hit"
    /\ \E w \in Workers : k_worker[w] = "reading"

\* The pool runs after a prime_cache_db that failed midway and the fallback
\* to the API.
C38_FallbackWitness ==
    /\ k_pc = "pool"
    /\ FOOD_CACHE = {"flour"}
    /\ UNIT_CACHE = UnitNames

\* One holder at a time: a worker reads only while it holds the lock.
LockExcludes ==
    \A w \in DOMAIN k_worker : k_worker[w] = "reading" <=> CACHE_LOCK = w

----------------------------------------------------------------------------

(* The report of the tagger after the pool                                 *)

\* The futures that the as_completed loop has consumed in the current run.
Counted == { r \in DOMAIN t_task : t_task[r] = "counted" }

\* The counters that the results of the records in done leave when each of
\* them is taken once, in any order.
CountersOf(done) ==
    [updated_count |->
         Cardinality({ r \in done : \/ t_result[r].tags_added # {}
                                    \/ t_result[r].cats_added # {}
                                    \/ t_result[r].tools_added # {} }),
     untagged_count |->
         Cardinality({ r \in done : /\ t_result[r].tags_added = {}
                                    /\ t_summaries[r].tags = {} }),
     cuisine_counts |->
         [c \in Cuisines |->
             Cardinality({ r \in done : c \in t_result[r].tags_added })]]

\* main has left both with blocks and printed the final report.
FinalReport == t_pc = "exit" /\ t_status = 0 /\ DOMAIN t_task # {}

\* While the loop runs the counters hold every consumed result once.
CountedOnce == (DOMAIN t_task # {}) => t_report = CountersOf(Counted)

\* C39: the tagger's final report (per-cuisine added counts, updated count,
\* untagged count) is produced only after the future of every submitted
\* recipe has completed, and each completed result has been counted exactly
\* once, whatever the completion order.
C39_ReportingBarrier ==
    /\ CountedOnce
    /\ FinalReport => /\ Counted = DOMAIN t_task
                      /\ t_report = CountersOf(DOMAIN t_task)

\* A report over two records, both of which were updated.
C39_Witness ==
    /\ FinalReport
    /\ Cardinality(DOMAIN t_task) >= 2
    /\ t_report.updated_count = Cardinality(DOMAIN t_task)

\* The loop has consumed the result of one record while another record is
\* still in the queue of the pool.
C39_OutOfOrderWitness ==
    /\ t_pc = "run"
    /\ \E r, q \in DOMAIN t_task : t_task[r] = "counted" /\ t_task[q] = "queued"

----------------------------------------------------------------------------

(* Recipes without a source URL in the junk phase                          *)

\* The names of the sample recipes, and names made of the junk keywords.
SampleNames ==
    { n_chicken_soup, n_best_grills, n_a_page, n_empty_pie, n_blank_pie }
        \cup HIGH_RISK_KEYWORDS

\* The recipes of the listing whose orgURL, originalURL and source are all
\* missing.
WithoutUrl == { s \in DOMAIN all_recipes : all_recipes[s].orgURL = NoUrl }

\* The DELETE loops of the junk phase of the current run.
JunkPhaseDeletes == IF c_pc = "junk" THEN { d \in c_deletes : d.run = c_run } ELSE {}

\* C40: a recipe without a source URL is never junk: is_junk_content returns
\* false whenever the URL is missing, whatever the recipe's name, so the
\* cleaner's junk phase never flags or deletes a recipe that has no source
\* URL.
C40_NoUrlNeverJunk ==
    /\ \A name \in SampleNames : ~is_junk_content(name, NoUrl)
    /\ \A s \in WithoutUrl \cap DOMAIN c_task : c_task[s] # "junk"
    /\ \A f \in FLAGGED_RECIPES : f.reason = "JUNK CONTENT" => f.url # NoUrl
    /\ \A d \in JunkPhaseDeletes : d.slug \notin WithoutUrl

\* The junk phase has kept a recipe without a URL whose name alone would
\* make it junk under any URL.
C40_Witness ==
    \E s \in WithoutUrl \cap clean_candidates :
        is_junk_content(all_recipes[s].name, u_chicken_soup)

----------------------------------------------------------------------------

(* The Bulk strategy against the Remote strategy                           *)

\* The record ids the query of one protein rule selects: the records with
\* an ingredient whose food name matches the inclusion expression and fails
\* the exclusion expression.
BulkSelect(rule, lib) ==
    { r \in DOMAIN lib :
        \E i \in 1..Len(lib[r].recipeIngredients) :
            check_match(lib[r].recipeIngredients[i].food, rule.regex, rule.exclude) }

\* C6: strategy equivalence.  For every protein rule and every record that
\* does not carry the rule's tag yet, process_single_recipe adds the tag
\* exactly when the rule's bulk query selects the record.
C6_StrategiesAgree ==
    \A r \in DOMAIN library :
        (Processed(r) /\ ~t_result[r].error) =>
            \A rule \in PROTEIN_TAGS :
                rule.tag \notin t_summaries[r].tags =>
                    (rule.tag \in t_result[r].tags_added <=> r \in BulkSelect(rule, library))

----------------------------------------------------------------------------
(* All tools                                                               *)

Init == InitTagger \/ InitCleaner \/ InitParser \/ InitStore

Next == NextTagger \/ NextCleaner \/ NextParser \/ NextStore

Spec == Init /\ [][Next]_vars

\* C7: dry-run safety.  No step taken while DRY_RUN is on sends a PATCH, a
\* DELETE, a PUT or an INSERT, or changes a recipe or a row of the store.
C7_DryRunSafety ==
    [][DRY_RUN =>
          /\ t_writes' = t_writes
          /\ c_deletes' = c_deletes
          /\ p_puts' = p_puts
          /\ s_writes' = s_writes
          /\ library' = library
          /\ <<s_tags, s_tools, recipes_to_tags, recipes_to_tools>>'
                 = <<s_tags, s_tools, recipes_to_tags, recipes_to_tools>>]_vars

\* A dry run of the parser went through a recipe with unparsed ingredients
\* and reported success for it; no PUT was sent.
C7_Witness ==
    /\ DRY_RUN
    /\ p_run = 1
    /\ p_pc = "run"
    /\ p_puts = {}
    /\ \E s \in DOMAIN p_task :
          /\ p_task[s] = "true"
          /\ NeedsParsing(library[s])

\* C8 as stated: in a dry run the cleaner still updates the reject set and
\* the verified set; the URL of every recipe delete_recipe was called for
\* is in the reject set, its slug is not in the verified set, and no DELETE
\* was sent.
C8_DryRunUpdatesSets ==
    (DRY_RUN /\ c_run >= 1) =>
        /\ \A f \in FLAGGED_RECIPES : f.url # NoUrl => f.url \in REJECTS
        /\ \A d \in c_deletes : d.run # c_run

\* C8, amended: during a dry run the cleaner sends no DELETE, leaves the
\* library, the reject set and both state files as they are, and never
\* removes a slug from the verified set.
C8_DryRunKeepsState ==
    [][(DRY_RUN /\ c_run' = c_run) =>
          /\ c_deletes' = c_deletes
          /\ library' = library
          /\ REJECTS' = REJECTS
          /\ VERIFIED \subseteq VERIFIED'
          /\ reject_file' = reject_file
          /\ verified_file' = verified_file]_vars

\* A dry run came to its end having flagged a recipe with a source URL that
\* is not in the reject set, and having verified another; nothing is on disk.
C8_Witness ==
    /\ DRY_RUN
    /\ c_run = 1
    /\ c_pc = "exit"
    /\ c_status = 0
    /\ \E f \in FLAGGED_RECIPES : f.url # NoUrl /\ f.url \notin REJECTS
    /\ VERIFIED # {}
    /\ c_deletes = {}
    /\ reject_file = NoFile /\ verified_file = NoFile

=============================================================================
